---- MODULE Spec2Model ----
(***************************************************************************)
(* A model of Uri.cpp: the generic-URI (RFC 3986) parser, normalizer,      *)
(* resolver and serializer.                                                *)
(*                                                                         *)
(* A std::string is a sequence of bytes (0..255); a character literal of   *)
(* the source is written Ord["c"].  A Uri::Impl is a record with the       *)
(* fields of the struct.                                                   *)
(***************************************************************************)
EXTENDS Integers, Sequences, FiniteSets, TLC

VARIABLES uri, ref, target, text, ok, stage, op, out, calls

vars == <<uri, ref, target, text, ok, stage, op, out, calls>>

(***************************************************************************)
(* Characters                                                              *)
(***************************************************************************)

\* The printable ASCII characters, in code order starting at code 32 (the
\* quote characters and the backslash are written by name).
Ascii ==
    << " ", "!", "QUOTE", "#", "$", "%", "&", "APOSTROPHE", "(", ")", "*", "+", ",", "-", ".", "/",
       "0", "1", "2", "3", "4", "5", "6", "7", "8", "9", ":", ";", "<", "=", ">", "?",
       "@", "A", "B", "C", "D", "E", "F", "G", "H", "I", "J", "K", "L", "M", "N", "O",
       "P", "Q", "R", "S", "T", "U", "V", "W", "X", "Y", "Z", "[", "BACKSLASH", "]", "^", "_",
       "BACKTICK", "a", "b", "c", "d", "e", "f", "g", "h", "i", "j", "k", "l", "m", "n", "o",
       "p", "q", "r", "s", "t", "u", "v", "w", "x", "y", "z", "{", "|", "}", "~" >>

\* The byte value of a character literal.
Ord == [c \in {Ascii[i] : i \in 1..Len(Ascii)} |->
            31 + (CHOOSE i \in 1..Len(Ascii) : Ascii[i] = c)]

\* A string literal, given as the tuple of its characters.
Str(cs) == [i \in 1..Len(cs) |-> Ord[cs[i]]]

\* The empty std::string.
Empty == << >>

\* std::string::find(c): the first index (1-based) of c in s, 0 for npos.
RECURSIVE FindFrom(_, _, _)
FindFrom(s, c, i) ==
    IF i > Len(s) THEN 0
    ELSE IF s[i] = c THEN i
    ELSE FindFrom(s, c, i + 1)

Find(s, c) == FindFrom(s, c, 1)

\* std::string::find_first_of(cs): the first index of a character of cs, 0 for npos.
RECURSIVE FindFirstOfFrom(_, _, _)
FindFirstOfFrom(s, cs, i) ==
    IF i > Len(s) THEN 0
    ELSE IF s[i] \in cs THEN i
    ELSE FindFirstOfFrom(s, cs, i + 1)

FindFirstOf(s, cs) == FindFirstOfFrom(s, cs, 1)

\* s.substr(0, n) and s.substr(n) with 0-based n <= length.
Prefix(s, n) == SubSeq(s, 1, n)
Suffix(s, n) == SubSeq(s, n + 1, Len(s))

\* std::tolower in the "C" locale, on an unsigned char.
ToLowerChar(c) == IF c >= Ord["A"] /\ c <= Ord["Z"] THEN c + 32 ELSE c

\* std::transform(s.begin(), s.end(), s.begin(), tolower)
ToLower(s) == [i \in 1..Len(s) |-> ToLowerChar(s[i])]

(***************************************************************************)
(* Character sets (Uri.cpp lines 28-145)                                   *)
(***************************************************************************)

ALPHA == (Ord["a"]..Ord["z"]) \cup (Ord["A"]..Ord["Z"])

DIGIT == Ord["0"]..Ord["9"]

HEXDIG == (Ord["0"]..Ord["9"]) \cup (Ord["A"]..Ord["F"]) \cup (Ord["a"]..Ord["f"])

UNRESERVED == ALPHA \cup DIGIT \cup {Ord["-"], Ord["."], Ord["_"], Ord["~"]}

SUB_DELIMS == {Ord["!"], Ord["$"], Ord["&"], Ord["APOSTROPHE"], Ord["("], Ord[")"],
               Ord["*"], Ord["+"], Ord[","], Ord[";"], Ord["="]}

SCHEME_NOT_FIRST == ALPHA \cup DIGIT \cup {Ord["+"], Ord["-"], Ord["."]}

PCHAR_NOT_PCT_ENCODED == UNRESERVED \cup SUB_DELIMS \cup {Ord[":"], Ord["@"]}

QUERY_OR_FRAGMENT_NOT_PCT_ENCODED == PCHAR_NOT_PCT_ENCODED \cup {Ord["/"], Ord["?"]}

\* The set of the query with '+' left in.
QUERY_NOT_PCT_ENCODED_WITH_PLUS == QUERY_OR_FRAGMENT_NOT_PCT_ENCODED

QUERY_NOT_PCT_ENCODED_WITHOUT_PLUS ==
    UNRESERVED
    \cup {Ord["!"], Ord["$"], Ord["&"], Ord["APOSTROPHE"], Ord["("], Ord[")"],
          Ord["*"], Ord[","], Ord[";"], Ord["="],
          Ord[":"], Ord["@"],
          Ord["/"], Ord["?"]}

USER_INFO_NOT_PCT_ENCODED == UNRESERVED \cup SUB_DELIMS \cup {Ord[":"]}

REG_NAME_NOT_PCT_ENCODED == UNRESERVED \cup SUB_DELIMS

IPV_FUTURE_LAST_PART == UNRESERVED \cup SUB_DELIMS \cup {Ord[":"]}

(***************************************************************************)
(* Element codec                                                           *)
(***************************************************************************)

\* PercentEncodedCharacterDecoder: the value of one hex digit, -1 when the
\* character is not a hex digit (NextEncodedCharacter returns false).
HexValue(c) ==
    IF c >= Ord["0"] /\ c <= Ord["9"] THEN c - Ord["0"]
    ELSE IF c >= Ord["A"] /\ c <= Ord["F"] THEN c - Ord["A"] + 10
    ELSE IF c >= Ord["a"] /\ c <= Ord["f"] THEN c - Ord["a"] + 10
    ELSE -1

\* DecodeLoop testing only the first digit of an escape.
RECURSIVE DecodeLoopTestingFirstDigit(_, _, _, _, _, _)
DecodeLoopTestingFirstDigit(s, allowed, i, acc, pec, hi) ==
    IF i > Len(s) THEN [ok |-> TRUE, element |-> acc]
    ELSE IF pec = 1
         THEN IF HexValue(s[i]) < 0 THEN [ok |-> FALSE, element |-> acc]
              ELSE DecodeLoopTestingFirstDigit(s, allowed, i + 1, acc, 2,
                                               HexValue(s[i]))
    ELSE IF pec = 2
         THEN DecodeLoopTestingFirstDigit(
                  s, allowed, i + 1,
                  Append(acc, hi * 16 + (IF HexValue(s[i]) < 0 THEN 0
                                         ELSE HexValue(s[i]))),
                  0, 0)
    ELSE IF s[i] = Ord["%"]
         THEN DecodeLoopTestingFirstDigit(s, allowed, i + 1, acc, 1, 0)
    ELSE IF s[i] \in allowed
         THEN DecodeLoopTestingFirstDigit(s, allowed, i + 1, Append(acc, s[i]), 0, 0)
    ELSE [ok |-> FALSE, element |-> acc]

\* The loop of DecodeElement from position i on: acc is the element decoded so
\* far, pec the number of escape digits consumed (0: not decoding an escape,
\* 1: '%' seen, 2: first digit seen) and hi the first digit's value.
RECURSIVE DecodeLoop(_, _, _, _, _, _)
DecodeLoop(s, allowed, i, acc, pec, hi) ==
    IF i > Len(s) THEN [ok |-> TRUE, element |-> acc]
    ELSE LET c == s[i] IN
         IF pec > 0
         THEN IF HexValue(c) < 0 THEN [ok |-> FALSE, element |-> acc]
              ELSE IF pec = 1
                   THEN DecodeLoop(s, allowed, i + 1, acc, 2, HexValue(c))
                   ELSE DecodeLoop(s, allowed, i + 1,
                                   Append(acc, hi * 16 + HexValue(c)), 0, 0)
         ELSE IF c = Ord["%"]
              THEN DecodeLoop(s, allowed, i + 1, acc, 1, 0)
         ELSE IF c \in allowed
              THEN DecodeLoop(s, allowed, i + 1, Append(acc, c), 0, 0)
         ELSE [ok |-> FALSE, element |-> acc]

\* DecodeElement(element, allowedCharacters): the flag it returns and the
\* element it leaves behind (on failure, what was decoded before the failure).
DecodeElement(element, allowedCharacters) ==
    DecodeLoop(element, allowedCharacters, 1, Empty, 0, 0)

DecodeQueryOrFragment(queryOrFragment) ==
    DecodeElement(queryOrFragment, QUERY_OR_FRAGMENT_NOT_PCT_ENCODED)

\* MakeHexDigit writing the digits above 9 in lowercase.
MakeHexDigitLowercase(value) ==
    IF value < 10 THEN value + Ord["0"] ELSE value - 10 + Ord["a"]

MakeHexDigit(value) ==
    IF value < 10 THEN value + Ord["0"] ELSE value - 10 + Ord["A"]

RECURSIVE EncodeFrom(_, _, _)
EncodeFrom(element, allowedCharacters, i) ==
    IF i > Len(element) THEN Empty
    ELSE LET c == element[i] IN
         (IF c \in allowedCharacters
          THEN <<c>>
          ELSE <<Ord["%"], MakeHexDigit(c \div 16), MakeHexDigit(c % 16)>>)
         \o EncodeFrom(element, allowedCharacters, i + 1)

EncodeElement(element, allowedCharacters) ==
    EncodeFrom(element, allowedCharacters, 1)

(***************************************************************************)
(* Host validators                                                         *)
(***************************************************************************)

\* The loop of ValidateOctet.  The accumulator is an int; it is kept as the
\* two 16-bit halves <<high, low>> of its 32-bit two's-complement pattern, so
\* that octet * 10 + digit wraps around modulo 2^32.
RECURSIVE OctetLoop(_, _, _, _)
OctetLoop(octetString, i, high, low) ==
    IF i > Len(octetString)
    THEN \* octet <= 255: a pattern with the sign bit set is a negative int
         high >= 32768 \/ (high = 0 /\ low <= 255)
    ELSE LET c == octetString[i] IN
         IF c \in DIGIT
         THEN LET l == low * 10 + (c - Ord["0"])
                  h == high * 10 + (l \div 65536)
              IN OctetLoop(octetString, i + 1, h % 65536, l % 65536)
         ELSE FALSE

ValidateOctet(octetString) == OctetLoop(octetString, 1, 0, 0)

\* The loop of ValidateIpv4Address from position i on.
RECURSIVE Ipv4Loop(_, _, _, _, _)
Ipv4Loop(address, i, state, numGroups, octetBuffer) ==
    IF i > Len(address)
    THEN IF octetBuffer # Empty
         THEN ValidateOctet(octetBuffer) /\ numGroups + 1 = 4
         ELSE numGroups = 4
    ELSE LET c == address[i] IN
         IF state = 0
         THEN IF c \in DIGIT
              THEN Ipv4Loop(address, i + 1, 1, numGroups, Append(octetBuffer, c))
              ELSE FALSE
         ELSE IF c = Ord["."]
              THEN IF numGroups >= 4 THEN FALSE
                   ELSE IF ~ValidateOctet(octetBuffer) THEN FALSE
                   ELSE Ipv4Loop(address, i + 1, 0, numGroups + 1, Empty)
         ELSE IF c \in DIGIT
              THEN Ipv4Loop(address, i + 1, 1, numGroups, Append(octetBuffer, c))
         ELSE FALSE

ValidateIpv4Address(address) == Ipv4Loop(address, 1, 0, 0, Empty)

\* The locals of ValidateIpv6Address before the loop.  position and
\* potentialIpv4AddressStart are 0-based, as in the source.
Ipv6Start ==
    [ state |-> "NO_GROUPS_YET", numGroups |-> 0, numDigits |-> 0,
      doubleColonEncountered |-> FALSE, potentialIpv4AddressStart |-> 0,
      position |-> 0, ipv4AddressEncountered |-> FALSE, failed |-> FALSE ]

\* One pass of the switch of ValidateIpv6Address on character c: the locals
\* after it, with failed set where the source returns false.
Ipv6Step(v, c) ==
    LET Fail == [v EXCEPT !.failed = TRUE]
        DigitsOk(w) == IF w.numDigits > 4 THEN Fail ELSE w
    IN
    CASE v.state = "NO_GROUPS_YET" ->
            IF c = Ord[":"] THEN [v EXCEPT !.state = "COLON_BUT_NO_GROUPS_YET"]
            ELSE IF c \in DIGIT
                 THEN [v EXCEPT !.potentialIpv4AddressStart = v.position,
                                !.numDigits = 1,
                                !.state = "IN_GROUP_COULD_BE_IPV4"]
            ELSE IF c \in HEXDIG
                 THEN [v EXCEPT !.numDigits = 1, !.state = "IN_GROUP_NOT_IPV4"]
            ELSE Fail
      [] v.state = "COLON_BUT_NO_GROUPS_YET" ->
            IF c = Ord[":"]
            THEN [v EXCEPT !.doubleColonEncountered = TRUE,
                           !.state = "AFTER_DOUBLE_COLON"]
            ELSE Fail
      [] v.state = "AFTER_DOUBLE_COLON" ->
            IF c \in DIGIT
            THEN DigitsOk([v EXCEPT !.potentialIpv4AddressStart = v.position,
                                    !.numDigits = v.numDigits + 1,
                                    !.state = "IN_GROUP_COULD_BE_IPV4"])
            ELSE IF c \in HEXDIG
                 THEN DigitsOk([v EXCEPT !.numDigits = v.numDigits + 1,
                                         !.state = "IN_GROUP_NOT_IPV4"])
            ELSE Fail
      [] v.state = "IN_GROUP_NOT_IPV4" ->
            IF c = Ord[":"]
            THEN [v EXCEPT !.numDigits = 0, !.numGroups = v.numGroups + 1,
                           !.state = "COLON_AFTER_GROUP"]
            ELSE IF c \in HEXDIG
                 THEN DigitsOk([v EXCEPT !.numDigits = v.numDigits + 1])
            ELSE Fail
      [] v.state = "IN_GROUP_COULD_BE_IPV4" ->
            IF c = Ord[":"]
            THEN [v EXCEPT !.numDigits = 0, !.numGroups = v.numGroups + 1,
                           !.state = "COLON_AFTER_GROUP"]
            ELSE IF c = Ord["."]
                 THEN [v EXCEPT !.ipv4AddressEncountered = TRUE]
            ELSE IF c \in DIGIT
                 THEN DigitsOk([v EXCEPT !.numDigits = v.numDigits + 1])
            ELSE IF c \in HEXDIG
                 THEN DigitsOk([v EXCEPT !.numDigits = v.numDigits + 1,
                                         !.state = "IN_GROUP_NOT_IPV4"])
            ELSE Fail
      [] v.state = "COLON_AFTER_GROUP" ->
            IF c = Ord[":"]
            THEN IF v.doubleColonEncountered THEN Fail
                 ELSE [v EXCEPT !.doubleColonEncountered = TRUE,
                                !.state = "AFTER_DOUBLE_COLON"]
            ELSE IF c \in DIGIT
                 THEN [v EXCEPT !.potentialIpv4AddressStart = v.position,
                                !.numDigits = v.numDigits + 1,
                                !.state = "IN_GROUP_COULD_BE_IPV4"]
            ELSE IF c \in HEXDIG
                 THEN [v EXCEPT !.numDigits = v.numDigits + 1,
                                !.state = "IN_GROUP_NOT_IPV4"]
            ELSE Fail

\* The end of one pass of the for loop of ValidateIpv6Address, with the
\* locals w the switch left: the loop ends at a return false and at the break
\* taken once an IPv4 part is met, and otherwise goes on after ++position.
RECURSIVE Ipv6Loop(_, _)
Ipv6Continue(address, w) ==
    IF w.failed \/ w.ipv4AddressEncountered THEN w
    ELSE Ipv6Loop(address, [w EXCEPT !.position = w.position + 1])

\* The for loop of ValidateIpv6Address: the locals it ends with.
Ipv6Loop(address, v) ==
    IF v.position >= Len(address) THEN v
    ELSE Ipv6Continue(address, Ipv6Step(v, address[v.position + 1]))

\* numGroups at the end of ValidateIpv6Address.
Ipv6NumGroups(v) ==
    (IF v.state \in {"IN_GROUP_NOT_IPV4", "IN_GROUP_COULD_BE_IPV4"}
     THEN v.numGroups + 1  \* count trailing group
     ELSE v.numGroups)
    + (IF v.ipv4AddressEncountered THEN 2 ELSE 0)

\* Ipv6Verdict without the rejection of a trailing single colon.
Ipv6VerdictAllowingTrailingColon(address, v) ==
    IF v.failed THEN FALSE
    ELSE IF v.ipv4AddressEncountered
            /\ ~ValidateIpv4Address(Suffix(address, v.potentialIpv4AddressStart))
         THEN FALSE
    ELSE IF v.doubleColonEncountered THEN Ipv6NumGroups(v) <= 7
    ELSE Ipv6NumGroups(v) = 8

\* What ValidateIpv6Address returns, given the locals v its loop ended with.
Ipv6Verdict(address, v) ==
    IF v.failed THEN FALSE
    ELSE IF v.position = Len(address)
            /\ v.state \in {"COLON_BUT_NO_GROUPS_YET", "COLON_AFTER_GROUP"}
         THEN FALSE  \* trailing single colon
    ELSE IF v.ipv4AddressEncountered
            /\ ~ValidateIpv4Address(Suffix(address, v.potentialIpv4AddressStart))
         THEN FALSE
    ELSE IF v.doubleColonEncountered THEN Ipv6NumGroups(v) <= 7
    ELSE Ipv6NumGroups(v) = 8

ValidateIpv6Address(address) == Ipv6Verdict(address, Ipv6Loop(address, Ipv6Start))

(***************************************************************************)
(* Scheme                                                                  *)
(***************************************************************************)

\* FailsMatch(candidate, LegalSchemeCheckStrategy()) from position i on;
\* isFirstCharacter is the flag the strategy's closure holds.
RECURSIVE SchemeFailsFrom(_, _, _)
SchemeFailsFrom(candidate, i, isFirstCharacter) ==
    IF i > Len(candidate)
    THEN \* stillPassing(' ', true) returns !isFirstCharacter
         isFirstCharacter
    ELSE LET c == candidate[i]
             check == IF isFirstCharacter THEN c \in ALPHA
                      ELSE c \in SCHEME_NOT_FIRST
         IN IF ~check THEN TRUE
            ELSE SchemeFailsFrom(candidate, i + 1, FALSE)

\* FailsMatchLegalScheme holding the first character to the rule of the others.
FailsMatchSchemeAnyFirst(candidate) == SchemeFailsFrom(candidate, 1, FALSE)

FailsMatchLegalScheme(candidate) == SchemeFailsFrom(candidate, 1, TRUE)

(***************************************************************************)
(* Uri::Impl                                                               *)
(***************************************************************************)

\* The properties of a default-constructed Uri::Impl.
Fresh ==
    [ scheme |-> Empty, userInfo |-> Empty, host |-> Empty,
      hasPort |-> FALSE, port |-> 0, path |-> << >>,
      hasQuery |-> FALSE, query |-> Empty,
      hasFragment |-> FALSE, fragment |-> Empty ]

HasAuthority(u) == u.host # Empty \/ u.userInfo # Empty \/ u.hasPort

IsPathAbsolute(u) == u.path # << >> /\ u.path[1] = Empty

ContainsRelativePath(u) == ~IsPathAbsolute(u)

\* The segments the for(;;) loop of ParsePath cuts a non-empty string into.
RECURSIVE SplitPath(_)
SplitPath(pathString) ==
    LET pathDelimiter == Find(pathString, Ord["/"]) IN
    IF pathDelimiter = 0 THEN <<pathString>>
    ELSE <<Prefix(pathString, pathDelimiter - 1)>>
         \o SplitPath(Suffix(pathString, pathDelimiter))

\* The decoding loop of ParsePath from segment i on: the path as the loop
\* leaves it, and whether every segment decoded.
RECURSIVE DecodeSegments(_, _)
\* The body of the decoding loop for segment i, DecodeElement having given d.
DecodeSegment(path, i, d) ==
    IF ~d.ok THEN [ok |-> FALSE, path |-> [path EXCEPT ![i] = d.element]]
    ELSE DecodeSegments([path EXCEPT ![i] = d.element], i + 1)

DecodeSegments(path, i) ==
    IF i > Len(path) THEN [ok |-> TRUE, path |-> path]
    ELSE DecodeSegment(path, i, DecodeElement(path[i], PCHAR_NOT_PCT_ENCODED))

\* What ParsePath returns and leaves, the decoding loop having given d.
ParsePathResult(u, d) == [ok |-> d.ok, u |-> [u EXCEPT !.path = d.path]]

ParsePath(u, pathString) ==
    ParsePathResult(u,
        DecodeSegments(IF pathString = <<Ord["/"]>> THEN <<Empty>>
                       ELSE IF pathString # Empty THEN SplitPath(pathString)
                       ELSE << >>,
                       1))

\* The locals of the host loop of ParseAuthority before the loop; pec counts
\* the digits the percent decoder has taken and hi is the first one's value.
HostStart ==
    [ state |-> "FIRST_CHARACTER", host |-> Empty, portString |-> Empty,
      hostIsRegName |-> FALSE, pec |-> 0, hi |-> 0, failed |-> FALSE ]

\* case NOT_IP_LITERAL of the host loop.
HostNotIpLiteral(h, c) ==
    IF c = Ord["%"]
    THEN [h EXCEPT !.pec = 0, !.state = "PERCENT_ENCODED_CHARACTER"]
    ELSE IF c = Ord[":"] THEN [h EXCEPT !.state = "PORT"]
    ELSE IF c \in REG_NAME_NOT_PCT_ENCODED
         THEN [h EXCEPT !.host = Append(h.host, c)]
    ELSE [h EXCEPT !.failed = TRUE]

\* HostIpv6Address taking what follows the ']' as the port at once.
HostIpv6AddressWithoutGarbageCheck(h, c) ==
    IF c = Ord["]"]
    THEN IF ~ValidateIpv6Address(h.host) THEN [h EXCEPT !.failed = TRUE]
         ELSE [h EXCEPT !.state = "PORT"]
    ELSE [h EXCEPT !.host = Append(h.host, c)]

\* case IPV6_ADDRESS of the host loop.
HostIpv6Address(h, c) ==
    IF c = Ord["]"]
    THEN IF ~ValidateIpv6Address(h.host) THEN [h EXCEPT !.failed = TRUE]
         ELSE [h EXCEPT !.state = "GARBAGE_CHECK"]
    ELSE [h EXCEPT !.host = Append(h.host, c)]

\* One pass of the switch of the host loop on character c, the fall-throughs
\* of FIRST_CHARACTER and IP_LITERAL included.
HostStep(h, c) ==
    CASE h.state = "FIRST_CHARACTER" ->
            IF c = Ord["["] THEN [h EXCEPT !.state = "IP_LITERAL"]
            ELSE HostNotIpLiteral(
                     [h EXCEPT !.state = "NOT_IP_LITERAL", !.hostIsRegName = TRUE], c)
      [] h.state = "NOT_IP_LITERAL" -> HostNotIpLiteral(h, c)
      [] h.state = "PERCENT_ENCODED_CHARACTER" ->
            IF HexValue(c) < 0 THEN [h EXCEPT !.failed = TRUE]
            ELSE IF h.pec = 0 THEN [h EXCEPT !.pec = 1, !.hi = HexValue(c)]
            ELSE [h EXCEPT !.state = "NOT_IP_LITERAL",
                           !.host = Append(h.host, h.hi * 16 + HexValue(c))]
      [] h.state = "IP_LITERAL" ->
            IF c = Ord["v"]
            THEN [h EXCEPT !.host = Append(h.host, c), !.state = "IPV_FUTURE_NUMBER"]
            ELSE HostIpv6Address([h EXCEPT !.state = "IPV6_ADDRESS"], c)
      [] h.state = "IPV6_ADDRESS" -> HostIpv6Address(h, c)
      [] h.state = "IPV_FUTURE_NUMBER" ->
            IF c = Ord["."]
            THEN [h EXCEPT !.state = "IPV_FUTURE_BODY", !.host = Append(h.host, c)]
            ELSE IF c \notin HEXDIG THEN [h EXCEPT !.failed = TRUE]
            ELSE [h EXCEPT !.host = Append(h.host, c)]
      [] h.state = "IPV_FUTURE_BODY" ->
            IF c = Ord["]"] THEN [h EXCEPT !.state = "GARBAGE_CHECK"]
            ELSE IF c \notin IPV_FUTURE_LAST_PART THEN [h EXCEPT !.failed = TRUE]
            ELSE [h EXCEPT !.host = Append(h.host, c)]
      [] h.state = "GARBAGE_CHECK" ->
            IF c = Ord[":"] THEN [h EXCEPT !.state = "PORT"]
            ELSE [h EXCEPT !.failed = TRUE]
      [] h.state = "PORT" -> [h EXCEPT !.portString = Append(h.portString, c)]

RECURSIVE HostLoop(_, _, _)
\* The end of one pass of the host loop, with the locals g the switch left.
HostContinue(hostPortString, i, g) ==
    IF g.failed THEN g ELSE HostLoop(hostPortString, i + 1, g)

\* The host loop of ParseAuthority from position i on: the locals it ends with.
HostLoop(hostPortString, i, h) ==
    IF i > Len(hostPortString) THEN h
    ELSE HostContinue(hostPortString, i, HostStep(h, hostPortString[i]))

\* The characters std::isspace accepts in the "C" locale.
Whitespace == {9, 10, 11, 12, 13, 32}

\* The digits of std::stoi from position i on: the value so far is acc, built
\* with the sign applied; converted says whether a digit has been taken.
\* A value outside int makes std::stoi throw std::out_of_range.
RECURSIVE StoiDigits(_, _, _, _, _)
StoiDigits(str, i, negative, acc, converted) ==
    IF i > Len(str) \/ str[i] \notin DIGIT
    THEN [ok |-> converted, value |-> acc]
    ELSE LET d == str[i] - Ord["0"] IN
         IF negative
         THEN IF acc < -214748364 \/ (acc = -214748364 /\ d > 8)
              THEN [ok |-> FALSE, value |-> 0]
              ELSE StoiDigits(str, i + 1, negative, acc * 10 - d, TRUE)
         ELSE IF acc > 214748364 \/ (acc = 214748364 /\ d > 7)
              THEN [ok |-> FALSE, value |-> 0]
              ELSE StoiDigits(str, i + 1, negative, acc * 10 + d, TRUE)

RECURSIVE SkipWhitespace(_, _)
SkipWhitespace(str, i) ==
    IF i <= Len(str) /\ str[i] \in Whitespace THEN SkipWhitespace(str, i + 1) ELSE i

\* std::stoi(str): ok is false where it throws (no conversion, out of range).
Stoi(str) ==
    LET i == SkipWhitespace(str, 1)
        signed == i <= Len(str) /\ str[i] \in {Ord["+"], Ord["-"]}
        negative == signed /\ str[i] = Ord["-"]
    IN StoiDigits(str, IF signed THEN i + 1 ELSE i, negative, 0, FALSE)

\* ParsePort without the range check: the value is cast to uint16_t as it is.
ParsePortTruncating(u, portString, portAsInt) ==
    IF portString = Empty
    THEN [ok |-> TRUE, u |-> [u EXCEPT !.hasPort = FALSE]]
    ELSE IF ~portAsInt.ok THEN [ok |-> FALSE, u |-> u]
    ELSE [ok |-> TRUE,
          u |-> [u EXCEPT !.port = portAsInt.value % 65536, !.hasPort = TRUE]]

\* The port conversion that ends ParseAuthority: portAsInt is what std::stoi
\* gave for a non-empty portString.
ParsePort(u, portString, portAsInt) ==
    IF portString = Empty
    THEN [ok |-> TRUE, u |-> [u EXCEPT !.hasPort = FALSE]]
    ELSE IF ~portAsInt.ok THEN [ok |-> FALSE, u |-> u]
    ELSE IF portAsInt.value < 0 \/ portAsInt.value > 65535
         THEN [ok |-> FALSE, u |-> u]
    ELSE [ok |-> TRUE, u |-> [u EXCEPT !.port = portAsInt.value, !.hasPort = TRUE]]

\* ParseHostEnd lowercasing the host whatever its kind.
ParseHostEndLoweringAll(u, h) ==
    IF h.failed \/ h.state \notin {"FIRST_CHARACTER", "NOT_IP_LITERAL",
                                   "GARBAGE_CHECK", "PORT"}
    THEN [ok |-> FALSE, u |-> [u EXCEPT !.host = h.host]]
    ELSE ParsePort([u EXCEPT !.host = ToLower(h.host)],
                   h.portString, Stoi(h.portString))

\* ParseAuthority after the host loop, which ended with the locals h.
ParseHostEnd(u, h) ==
    IF h.failed THEN [ok |-> FALSE, u |-> [u EXCEPT !.host = h.host]]
    ELSE IF h.state \notin {"FIRST_CHARACTER", "NOT_IP_LITERAL",
                            "GARBAGE_CHECK", "PORT"}
         THEN \* truncated or ended early
              [ok |-> FALSE, u |-> [u EXCEPT !.host = h.host]]
    ELSE ParsePort([u EXCEPT !.host = IF h.hostIsRegName THEN ToLower(h.host)
                                      ELSE h.host],
                   h.portString, Stoi(h.portString))

\* ParseAuthority after the user-info: d is what DecodeElement gave for it
\* (an empty element when the authority holds no '@').
ParseHostPort(u, d, hostPortString) ==
    IF ~d.ok THEN [ok |-> FALSE, u |-> [u EXCEPT !.userInfo = d.element]]
    ELSE ParseHostEnd([u EXCEPT !.userInfo = d.element],
                      HostLoop(hostPortString, 1, HostStart))

\* ParseAuthority, given where authorityString.find('@') found the delimiter.
ParseUserInfo(u, authorityString, userInfoDelimiter) ==
    IF userInfoDelimiter = 0
    THEN ParseHostPort(u, [ok |-> TRUE, element |-> Empty], authorityString)
    ELSE ParseHostPort(u,
                       DecodeElement(Prefix(authorityString, userInfoDelimiter - 1),
                                     USER_INFO_NOT_PCT_ENCODED),
                       Suffix(authorityString, userInfoDelimiter))

ParseAuthority(u, authorityString) ==
    ParseUserInfo(u, authorityString, Find(authorityString, Ord["@"]))

\* ParseScheme, given where the ':' was found within the part before the
\* first '/'.
ParseSchemeAt(u, uriString, schemeEnd) ==
    IF schemeEnd = 0
    THEN [ok |-> TRUE, u |-> [u EXCEPT !.scheme = Empty], rest |-> uriString]
    ELSE IF FailsMatchLegalScheme(Prefix(uriString, schemeEnd - 1))
         THEN [ok |-> FALSE,
               u |-> [u EXCEPT !.scheme = Prefix(uriString, schemeEnd - 1)],
               rest |-> Empty]
    ELSE [ok |-> TRUE,
          u |-> [u EXCEPT !.scheme = ToLower(Prefix(uriString, schemeEnd - 1))],
          rest |-> Suffix(uriString, schemeEnd)]

\* The length of the part of uriString ParseScheme searches for the ':'.
AuthorityOrPathDelimiterStart(uriString, slash) ==
    IF slash = 0 THEN Len(uriString) ELSE slash - 1

ParseScheme(u, uriString) ==
    ParseSchemeAt(u, uriString,
        Find(Prefix(uriString,
                    AuthorityOrPathDelimiterStart(uriString, Find(uriString, Ord["/"]))),
             Ord[":"]))

\* What the authority branch of SplitAuthorityFromPathAndParseIt returns and
\* leaves, ParseAuthority having given a.
SplitAuthorityResult(a, pathString) ==
    [ok |-> a.ok, u |-> a.u, pathString |-> pathString]

\* The authority branch of SplitAuthorityFromPathAndParseIt, on the text
\* after the authority marker; authorityEnd is the authority's length.
SplitAuthority(u, stripped, authorityEnd) ==
    SplitAuthorityResult(ParseAuthority(u, Prefix(stripped, authorityEnd)),
                         Suffix(stripped, authorityEnd))

AuthorityEnd(stripped, slash) == IF slash = 0 THEN Len(stripped) ELSE slash - 1

SplitAuthorityFromPathAndParseIt(u, authorityAndPathString) ==
    IF Len(authorityAndPathString) >= 2
       /\ Prefix(authorityAndPathString, 2) = <<Ord["/"], Ord["/"]>>
    THEN SplitAuthority(u, Suffix(authorityAndPathString, 2),
                        AuthorityEnd(Suffix(authorityAndPathString, 2),
                                     Find(Suffix(authorityAndPathString, 2), Ord["/"])))
    ELSE [ok |-> TRUE,
          u |-> [u EXCEPT !.userInfo = Empty, !.host = Empty, !.hasPort = FALSE],
          pathString |-> authorityAndPathString]

\* SetDefaultPathIfAuthorityPresentAndPathEmpty leaving the path as it is.
SetDefaultPathNever(u) == u

SetDefaultPathIfAuthorityPresentAndPathEmpty(u) ==
    IF u.host # Empty /\ u.path = << >>
    THEN [u EXCEPT !.path = <<Empty>>]
    ELSE u

\* What ParseQuery returns and leaves, DecodeQueryOrFragment having given d.
ParseQueryResult(u, hasQuery, d) ==
    [ok |-> d.ok, u |-> [u EXCEPT !.hasQuery = hasQuery, !.query = d.element]]

ParseQuery(u, queryWithDelimiter) ==
    ParseQueryResult(u, queryWithDelimiter # Empty,
        DecodeQueryOrFragment(IF queryWithDelimiter # Empty
                              THEN Suffix(queryWithDelimiter, 1)
                              ELSE Empty))

\* What ParseFragment returns and leaves, given where the '#' was found and
\* what DecodeQueryOrFragment gave (d).
ParseFragmentResult(u, queryAndOrFragment, fragmentDelimiter, d) ==
    [ok |-> d.ok,
     u |-> [u EXCEPT !.hasFragment = (fragmentDelimiter # 0),
                     !.fragment = d.element],
     rest |-> IF fragmentDelimiter = 0 THEN queryAndOrFragment
              ELSE Prefix(queryAndOrFragment, fragmentDelimiter - 1)]

ParseFragmentAt(u, queryAndOrFragment, fragmentDelimiter) ==
    ParseFragmentResult(u, queryAndOrFragment, fragmentDelimiter,
        DecodeQueryOrFragment(IF fragmentDelimiter = 0 THEN Empty
                              ELSE Suffix(queryAndOrFragment, fragmentDelimiter)))

ParseFragment(u, queryAndOrFragment) ==
    ParseFragmentAt(u, queryAndOrFragment, Find(queryAndOrFragment, Ord["#"]))

\* ParseFromString after ParseQuery, which gave q.
ParseFromStringEnd(q) == [ok |-> q.ok, u |-> q.u, stage |-> "ParseQuery"]

\* ParseFromString after ParseFragment, which gave f.
ParseFromStringQuery(f) ==
    IF ~f.ok THEN [ok |-> FALSE, u |-> f.u, stage |-> "ParseFragment"]
    ELSE ParseFromStringEnd(ParseQuery(f.u, f.rest))

\* ParseFromString after ParsePath, which gave p.
ParseFromStringFragment(p, queryAndOrFragment) ==
    IF ~p.ok THEN [ok |-> FALSE, u |-> p.u, stage |-> "ParsePath"]
    ELSE ParseFromStringQuery(
             ParseFragment(SetDefaultPathIfAuthorityPresentAndPathEmpty(p.u),
                           queryAndOrFragment))

\* ParseFromString after SplitAuthorityFromPathAndParseIt, which gave a.
ParseFromStringPath(a, queryAndOrFragment) ==
    IF ~a.ok
    THEN [ok |-> FALSE, u |-> a.u, stage |-> "SplitAuthorityFromPathAndParseIt"]
    ELSE ParseFromStringFragment(ParsePath(a.u, a.pathString), queryAndOrFragment)

\* ParseFromString from the split of rest at pathEnd (0 for npos) on.
ParseFromStringSplit(u, rest, pathEnd) ==
    ParseFromStringPath(
        SplitAuthorityFromPathAndParseIt(
            u, IF pathEnd = 0 THEN rest ELSE Prefix(rest, pathEnd - 1)),
        IF pathEnd = 0 THEN Empty ELSE Suffix(rest, pathEnd - 1))

\* ParseFromString after ParseScheme, which gave s.
ParseFromStringAuthority(s) ==
    IF ~s.ok THEN [ok |-> FALSE, u |-> s.u, stage |-> "ParseScheme"]
    ELSE ParseFromStringSplit(s.u, s.rest, FindFirstOf(s.rest, {Ord["?"], Ord["#"]}))

\* Uri::ParseFromString on an object whose properties are u: the flag it
\* returns, the properties it leaves (also where it returns early), and the
\* stage whose result it returned.
ParseFromString(u, uriString) == ParseFromStringAuthority(ParseScheme(u, uriString))

\* CanNavigatePathUpOneLevel, on the path rebuilt so far.
\* CanNavigatePathUpOneLevel allowing the step above the root.
CanAlwaysNavigatePathUp(path) == TRUE

CanNavigatePathUpOneLevel(path) ==
    ~(path # << >> /\ path[1] = Empty) \/ Len(path) > 1

\* The loop of NormalizePath from segment i of oldPath on; path is the path
\* rebuilt so far.
RECURSIVE NormalizeLoop(_, _, _, _)
NormalizeLoop(oldPath, i, path, atDirectoryLevel) ==
    IF i > Len(oldPath)
    THEN IF atDirectoryLevel /\ path # << >> /\ path[Len(path)] # Empty
         THEN Append(path, Empty)
         ELSE path
    ELSE LET segment == oldPath[i] IN
         IF segment = <<Ord["."]>>
         THEN NormalizeLoop(oldPath, i + 1, path, TRUE)
         ELSE IF segment = <<Ord["."], Ord["."]>>
              THEN NormalizeLoop(oldPath, i + 1,
                                 IF path # << >> /\ CanNavigatePathUpOneLevel(path)
                                 THEN SubSeq(path, 1, Len(path) - 1)
                                 ELSE path,
                                 TRUE)
         ELSE NormalizeLoop(oldPath, i + 1,
                            IF ~atDirectoryLevel \/ segment # Empty
                            THEN Append(path, segment)
                            ELSE path,
                            segment = Empty)

\* NormalizePath rebuilding onto the old path instead of onto an empty one.
NormalizePathOntoOldPath(u) ==
    [u EXCEPT !.path = NormalizeLoop(u.path, 1, u.path, FALSE)]

NormalizePath(u) == [u EXCEPT !.path = NormalizeLoop(u.path, 1, << >>, FALSE)]

CopyScheme(t, other) == [t EXCEPT !.scheme = other.scheme]

CopyAuthority(t, other) ==
    [t EXCEPT !.host = other.host, !.userInfo = other.userInfo,
              !.hasPort = other.hasPort, !.port = other.port]

CopyPath(t, other) == [t EXCEPT !.path = other.path]

CopyAndNormalizePath(t, other) == NormalizePath(CopyPath(t, other))

CopyQuery(t, other) == [t EXCEPT !.hasQuery = other.hasQuery, !.query = other.query]

\* CopyFragment copying the flag and not the value.
CopyFragmentFlagOnly(t, other) == [t EXCEPT !.hasFragment = other.hasFragment]

CopyFragment(t, other) ==
    [t EXCEPT !.hasFragment = other.hasFragment, !.fragment = other.fragment]

\* operator==
UriEquals(a, b) ==
    /\ a.scheme = b.scheme
    /\ a.userInfo = b.userInfo
    /\ a.host = b.host
    /\ \/ ~a.hasPort /\ ~b.hasPort
       \/ a.hasPort /\ b.hasPort /\ a.port = b.port
    /\ a.path = b.path
    /\ \/ ~a.hasQuery /\ ~b.hasQuery
       \/ a.hasQuery /\ b.hasQuery /\ a.query = b.query
    /\ \/ ~a.hasFragment /\ ~b.hasFragment
       \/ a.hasFragment /\ b.hasFragment /\ a.fragment = b.fragment

\* ResolveScheme copying the path without normalizing it.
ResolveSchemeUnnormalized(r) ==
    CopyQuery(CopyPath(CopyAuthority(CopyScheme(Fresh, r), r), r), r)

\* Resolve, the reference having a scheme.
ResolveScheme(r) ==
    CopyQuery(CopyAndNormalizePath(CopyAuthority(CopyScheme(Fresh, r), r), r), r)

\* Resolve, the reference having no scheme and a host.
ResolveHost(r) ==
    CopyQuery(CopyAndNormalizePath(CopyAuthority(Fresh, r), r), r)

\* ResolveEmptyPath choosing the query by the reference's hasQuery flag.
ResolveEmptyPathByFlag(base, r) ==
    IF r.hasQuery
    THEN CopyQuery([Fresh EXCEPT !.path = base.path], r)
    ELSE CopyQuery([Fresh EXCEPT !.path = base.path], base)

\* Resolve, the reference having no scheme, no host and an empty path.
ResolveEmptyPath(base, r) ==
    IF r.query # Empty
    THEN CopyQuery([Fresh EXCEPT !.path = base.path], r)
    ELSE CopyQuery([Fresh EXCEPT !.path = base.path], base)

\* MergePaths without the removal of the base path's last segment.
MergePathsKeepingLast(base, r) == base.path \o r.path

\* The path of the target in the merge branch of Resolve, before the call
\* of NormalizePath.
MergePaths(base, r) ==
    (IF Len(base.path) > 1 THEN SubSeq(base.path, 1, Len(base.path) - 1)
     ELSE base.path)
    \o r.path

\* Resolve, the reference having no scheme, no host and a path.
ResolvePath(base, r) ==
    CopyQuery(IF IsPathAbsolute(r)
              THEN CopyAndNormalizePath(Fresh, r)
              ELSE NormalizePath([Fresh EXCEPT !.path = MergePaths(base, r)]),
              r)

\* base.Resolve(relativeReference)
Resolve(base, relativeReference) ==
    CopyFragment(
        IF relativeReference.scheme # Empty
        THEN ResolveScheme(relativeReference)
        ELSE CopyScheme(
                 IF relativeReference.host # Empty
                 THEN ResolveHost(relativeReference)
                 ELSE CopyAuthority(
                          IF relativeReference.path = << >>
                          THEN ResolveEmptyPath(base, relativeReference)
                          ELSE ResolvePath(base, relativeReference),
                          base),
                 base),
        relativeReference)

\* operator<< of a uint16_t: its decimal digits.
RECURSIVE Decimal(_)
Decimal(n) ==
    IF n < 10 THEN <<Ord["0"] + n>>
    ELSE Append(Decimal(n \div 10), Ord["0"] + (n % 10))

\* The path part of GenerateString from segment i on.
RECURSIVE GeneratePath(_, _)
GeneratePath(path, i) ==
    IF i > Len(path) THEN Empty
    ELSE EncodeElement(path[i], PCHAR_NOT_PCT_ENCODED)
         \o (IF i < Len(path) THEN <<Ord["/"]>> ELSE Empty)
         \o GeneratePath(path, i + 1)

GenerateString(u) ==
    (IF u.scheme # Empty THEN u.scheme \o <<Ord[":"]>> ELSE Empty)
    \o (IF HasAuthority(u)
        THEN <<Ord["/"], Ord["/"]>>
             \o (IF u.userInfo # Empty
                 THEN EncodeElement(u.userInfo, USER_INFO_NOT_PCT_ENCODED)
                      \o <<Ord["@"]>>
                 ELSE Empty)
             \o (IF u.host # Empty
                 THEN IF ValidateIpv6Address(u.host)
                      THEN <<Ord["["]>> \o ToLower(u.host) \o <<Ord["]"]>>
                      ELSE EncodeElement(u.host, REG_NAME_NOT_PCT_ENCODED)
                 ELSE Empty)
             \o (IF u.hasPort THEN <<Ord[":"]>> \o Decimal(u.port) ELSE Empty)
        ELSE Empty)
    \o (IF IsPathAbsolute(u) /\ Len(u.path) = 1 THEN <<Ord["/"]>> ELSE Empty)
    \o GeneratePath(u.path, 1)
    \o (IF u.hasQuery
        THEN <<Ord["?"]>> \o EncodeElement(u.query, QUERY_NOT_PCT_ENCODED_WITHOUT_PLUS)
        ELSE Empty)
    \o (IF u.hasFragment
        THEN <<Ord["#"]>> \o EncodeElement(u.fragment, QUERY_OR_FRAGMENT_NOT_PCT_ENCODED)
        ELSE Empty)

(***************************************************************************)
(* Inputs                                                                  *)
(***************************************************************************)

\* The longest text drawn exhaustively from TextAlphabet.
MaxTextLen == 3

\* The most segments of a path handed to SetPath before NormalizePath.
MaxPathLen == 4

\* The most groups of an IPv6 address handed to the parser.
MaxGroups == 9

\* The longest port text drawn exhaustively from PortAlphabet.
MaxPortLen == 3

\* The most mutating calls made on one Uri object after its construction.
MaxCalls == 2

RECURSIVE SeqsUpTo(_, _)
SeqsUpTo(S, n) ==
    IF n = 0 THEN {<< >>}
    ELSE LET shorter == SeqsUpTo(S, n - 1) IN
         shorter \cup {Append(q, x) : q \in {r \in shorter : Len(r) = n - 1}, x \in S}

TextAlphabet == {Ord["a"], Ord["A"], Ord[":"], Ord["/"], Ord["@"], Ord["?"],
                 Ord["#"], Ord["%"]}

ShortTexts == SeqsUpTo(TextAlphabet, MaxTextLen)

SchemeParts ==
    { Str(<<>>),
      Str(<<"h", ":">>),
      Str(<<"H", "t", ":">>),
      Str(<<"h", "1", "+", "-", ".", ":">>),
      Str(<<"1", ":">>),
      Str(<<":">>),
      Str(<<"h", "_", ":">>) }

AuthorityParts ==
    { Str(<<>>),
      Str(<<"/", "/">>),
      Str(<<"/", "/", "a">>),
      Str(<<"/", "/", "A", ".", "b">>),
      Str(<<"/", "/", "u", "@">>),
      Str(<<"/", "/", "u", "@", "a">>),
      Str(<<"/", "/", ":", "8">>),
      Str(<<"/", "/", "a", ":", "8", "0">>),
      Str(<<"/", "/", "a", ":", "6", "5", "5", "3", "5">>),
      Str(<<"/", "/", "a", ":", "6", "5", "5", "3", "6">>),
      Str(<<"/", "/", "[", ":", ":", "A", "]">>),
      Str(<<"/", "/", "[", "v", "1", ".", "X", "]">>),
      Str(<<"/", "/", "[", ":", ":", "1", "]", ":", "8">>),
      Str(<<"/", "/", "a", "%", "4", "1">>),
      Str(<<"/", "/", "[", ":", ":", "1", "]", "x">>),
      Str(<<"/", "/", "[", ":", ":", "1">>),
      Str(<<"/", "/", "a", ":", "8", "x">>),
      Str(<<"/", "/", "u", "%", "@", "a">>) }

PathParts ==
    { Str(<<>>),
      Str(<<"/">>),
      Str(<<"/", "a", "/", "b">>),
      Str(<<"a">>),
      Str(<<"/", "/", "a">>),
      Str(<<"/", "%", "4">>),
      Str(<<"a", "%", "3", "A", "b">>),
      Str(<<"/", ".", "/", ".", ".">>) }

TailParts ==
    { Str(<<>>),
      Str(<<"?">>),
      Str(<<"?", "q">>),
      Str(<<"?", "a", "+", "b">>),
      Str(<<"#">>),
      Str(<<"#", "f">>),
      Str(<<"?", "q", "#", "f">>),
      Str(<<"?", "%", "z", "z">>),
      Str(<<"#", "^">>) }

\* Texts put together from a scheme, an authority, a path and a tail, well
\* formed or not.
ComposedTexts ==
    {s \o a \o p \o t : s \in SchemeParts, a \in AuthorityParts,
                        p \in PathParts, t \in TailParts}

\* Escapes, well formed or not.
EscapeSamples == { Str(<<"%", "g", "1">>), Str(<<"%", "1", "g">>), Str(<<"%", "4", "1">>), Str(<<"%", "4">>), Str(<<"%">>), Str(<<"%", "a", "F">>) }

\* A text with every element, one of which (the k-th of user-info, host, two
\* path segments, query and fragment) holds an escape.
EscapeText(k, e) ==
    Str(<<"h", ":", "/", "/">>) \o (IF k = 1 THEN e ELSE Str(<<"u">>))
    \o Str(<<"@">>) \o (IF k = 2 THEN e ELSE Str(<<"a">>))
    \o Str(<<"/">>) \o (IF k = 3 THEN e ELSE Str(<<"p">>))
    \o Str(<<"/">>) \o (IF k = 4 THEN e ELSE Str(<<"s">>))
    \o Str(<<"?">>) \o (IF k = 5 THEN e ELSE Str(<<"q">>))
    \o Str(<<"#">>) \o (IF k = 6 THEN e ELSE Str(<<"f">>))

\* The escape is written alone, after "b", before "c" and between them.
EscapeTexts ==
    { EscapeText(k, w[1] \o e \o w[2]) :
        k \in 1..6, e \in EscapeSamples,
        w \in { <<Empty, Empty>>, <<Str(<<"b">>), Empty>>, <<Empty, Str(<<"c">>)>>, <<Str(<<"b">>), Str(<<"c">>)>> } }

ParseTexts == ShortTexts \cup ComposedTexts \cup EscapeTexts

\* The texts handed to ParseFromString in the life of one object.
LifecycleTexts ==
    { Str(<<>>),
      Str(<<"a">>),
      Str(<<"/">>),
      Str(<<"h", ":">>),
      Str(<<"H", "t", ":", "/", "/", "A", "/">>),
      Str(<<"h", ":", "/", "/", "a">>),
      Str(<<"/", "/", "a", ":", "8">>),
      Str(<<"/", "/", "a", ":", "8", "0", "/", "b", "?", "q", "#", "f">>),
      Str(<<"/", "/", "u", "@">>),
      Str(<<"/", "/", ":", "8">>),
      Str(<<"/", "/", "u", "@", "a", ":", "8", "/">>),
      Str(<<"h", ":", "/", "/", "/", "/", "a">>),
      Str(<<"/", "/", "[", ":", ":", "A", "]">>),
      Str(<<"/", "/", "[", "v", "1", ".", "X", "]">>),
      Str(<<"1", ":">>),
      Str(<<":">>),
      Str(<<"?", "q">>),
      Str(<<"#", "f">>),
      Str(<<"a", "?", "+">>),
      Str(<<"/", "/", "a", ":", "6", "5", "5", "3", "6">>),
      Str(<<"/", "/", "a", ":", "8", "x">>),
      Str(<<"%", "z", "z">>),
      Str(<<"a", "%">>),
      Str(<<"/", "/", "a", "%", "4", "1">>),
      Str(<<"/", "/", "[", ":", ":", "1">>),
      Str(<<"h", ":", "a", "/", ".", ".", "/", "b">>),
      Str(<<"?">>),
      Str(<<"#">>) }

\* The texts the base of a resolution is parsed from.
BaseTexts ==
    { Str(<<"h", "t", "t", "p", ":", "/", "/", "a", "/", "b", "/", "c", "/", "d", ";", "p", "?", "q">>),
      Str(<<"h", ":", "/", "/", "u", "@", "b", ":", "8", "/", "x", "/", "y", "?", "k", "#", "z">>),
      Str(<<"/", "/", "a">>),
      Str(<<"a">>),
      Str(<<>>),
      Str(<<"h", ":", "/">>),
      Str(<<"x", "/", ".", ".", "/", "y", "/", "z", "#", "z">>),
      Str(<<"/", "/", ":", "9", "/", "p", "/", "?">>) }

\* The texts the reference of a resolution is parsed from.
ReferenceTexts ==
    { Str(<<"g">>),
      Str(<<".", ".", "/", ".", ".", "/", ".", ".", "/", "g">>),
      Str(<<>>),
      Str(<<"?", "y">>),
      Str(<<"#", "s">>),
      Str(<<"?">>),
      Str(<<"g", "?", "y", "#", "s">>),
      Str(<<"/", "x", "/", ".", "/", "y">>),
      Str(<<"/", "/", "u", "@">>),
      Str(<<"/", "/", ":", "8">>),
      Str(<<"/", "/", "b", "/", ".", ".", "/", "c", "?", "k">>),
      Str(<<"s", ":", "a", "/", ".", ".", "/", "b", "?", "q">>),
      Str(<<"S", ":", "/", "/", "u", "@", "h", ":", "9", "/", "p", "/", ".", ".", "?", "q", "#", "f">>),
      Str(<<".">>),
      Str(<<".", ".">>),
      Str(<<".", "/", "g", "/", ".">>),
      Str(<<"g", "/">>),
      Str(<<"/", "/", "b">>),
      Str(<<"x", ":">>),
      Str(<<"/", "/", "u", "@", "/", "p", "/", ".">>),
      Str(<<".", ".", "/", ".", ".">>),
      Str(<<"a", "/", "/", ".", ".", "/", "b">>) }

LifecycleStrings == {Empty, Str(<<"x">>), Str(<<"a", "+">>)}

LifecyclePorts == {9, 65535}

LifecyclePaths ==
    { << >>, <<Empty>>, <<Str(<<".", ".">>), Str(<<"p">>)>>, <<Empty, Str(<<"a", "+">>), Str(<<"+">>)>> }

PathSegments == {Empty, Str(<<".">>), Str(<<".", ".">>), Str(<<"a">>)}

\* Longer paths: /a/b/../../../g and others.
LongPaths ==
    { <<Empty, Str(<<"a">>), Str(<<"b">>), Str(<<".", ".">>), Str(<<".", ".">>), Str(<<".", ".">>), Str(<<"g">>)>>,
      <<Str(<<"a">>), Str(<<"b">>), Str(<<".", ".">>), Str(<<".", ".">>), Str(<<".", ".">>), Str(<<"g">>), Str(<<".">>)>>,
      <<Empty, Str(<<".", ".">>), Empty, Empty, Str(<<".">>), Str(<<"a">>), Empty, Str(<<".", ".">>)>> }

NormalizePaths == SeqsUpTo(PathSegments, MaxPathLen) \cup LongPaths

\* What is written before the first group of an IPv6 address and after the
\* last: a separator at one end at most.
Ipv6Ends ==
    { <<Empty, Empty>>, <<Str(<<":">>), Empty>>, <<Str(<<":", ":">>), Empty>>,
      <<Empty, Str(<<":">>)>>, <<Empty, Str(<<":", ":">>)>> }

\* The first and the last group, one of the two being "1"; the groups between
\* them are "1".  The last may be a dotted quad.
Ipv6FirstAndLast ==
    { g \in { Str(<<"1">>), Str(<<"a", "B", "9", "f">>), Str(<<"1", "2", "3", "4", "5">>) }
            \X { Str(<<"1">>), Str(<<"F", "e">>), Str(<<"0", "a", "b", "c", "d">>), Str(<<"1", ".", "2", ".", "3", ".", "4">>), Str(<<"1", ".", "2", ".", "3">>) } :
        g[1] = Str(<<"1">>) \/ g[2] = Str(<<"1">>) }

\* Groups i..n joined by ':', and by "::" after the groups of doubled.
RECURSIVE Ipv6Join(_, _, _, _, _)
Ipv6Join(i, n, doubled, first, last) ==
    IF i > n THEN Empty
    ELSE (IF i = n THEN last ELSE IF i = 1 THEN first ELSE Str(<<"1">>))
         \o (IF i = n THEN Empty
             ELSE IF i \in doubled THEN Str(<<":", ":">>) ELSE Str(<<":">>))
         \o Ipv6Join(i + 1, n, doubled, first, last)

Ipv6Examples ==
    { Str(<<"1", ":", "2", ":", "3", ":", "4", ":", "5", ":", "6", ":", "7", ":", "8">>),
      Str(<<":", ":", "1">>),
      Str(<<"1", ":", "2", ":", "3", ":", "4", ":", "5", ":", "6", ":", "7", ":", "8", ":", "9">>),
      Str(<<"1", ":", ":", "2", ":", ":", "3">>),
      Str(<<"1", ":", "2", ":", "3", ":", "4", ":", "5", ":", "6", ":", "1", ".", "2", ".", "3", ".", "4">>),
      Str(<<"1", ":", "2", ":", "3", ":", "4", ":", "5", ":", "1", ".", "2", ".", "3", ".", "4">>),
      Str(<<"1", ":", "2", ":", "3", ":", "4", ":", "5", ":", ":", "1", ".", "2", ".", "3", ".", "4">>),
      Str(<<":", ":", "f", "f", "f", "f", ":", "1", "0", ".", "0", ".", "2", "5", "5", ".", "9">>) }

\* The addresses written between the brackets of a host: the examples, and
\* up to MaxGroups groups, "::" in at most two places between them, and a
\* separator or nothing before and after.
Ipv6Addresses ==
    Ipv6Examples \cup
    UNION { { ends[1] \o Ipv6Join(1, n, doubled, groups[1], groups[2]) \o ends[2] :
                ends \in Ipv6Ends, groups \in Ipv6FirstAndLast,
                doubled \in { d \in SUBSET (1..(n - 1)) : Cardinality(d) <= 2 } } :
            n \in 0..MaxGroups }

PortAlphabet == { Ord["0"], Ord["6"], Ord["9"], Ord["+"], Ord["-"], Ord[" "], Ord["a"] }

\* The texts written after the ':' that follows the host.
PortTexts ==
    SeqsUpTo(PortAlphabet, MaxPortLen)
    \cup { Str(<<"8", "0">>),
           Str(<<"8", "0", "8", "0">>),
           Str(<<"6", "5", "5", "3", "5">>),
           Str(<<"6", "5", "5", "3", "6">>),
           Str(<<"0", "6", "5", "5", "3", "5">>),
           Str(<<"0", "0", "0", "0", "0", "6", "5", "5", "3", "5">>),
           Str(<<"9", "9", "9", "9", "9">>),
           Str(<<"2", "1", "4", "7", "4", "8", "3", "6", "4", "7">>),
           Str(<<"2", "1", "4", "7", "4", "8", "3", "6", "4", "8">>),
           Str(<<"4", "2", "9", "4", "9", "6", "7", "2", "9", "6">>),
           Str(<<"4", "2", "9", "4", "9", "6", "7", "3", "7", "6">>),
           Str(<<"9", "9", "9", "9", "9", "9", "9", "9", "9", "9", "9">>),
           Str(<<"0", "0", "0", "0", "0", "0", "0", "0", "0", "0", "0", "0", "0", "0", "0", "0", "0", "0", "8", "0">>),
           Str(<<"8", "0", "a", "b", "c">>),
           Str(<<"+", "8", "0">>),
           Str(<<"-", "1">>),
           Str(<<"-", "0">>),
           Str(<<" ", "8", "0">>),
           Str(<<"0", "x", "5", "0">>),
           Str(<<"8", " ", "0">>),
           Str(<<"8", "0", " ">>) }

\* The hosts a port text is written after.
PortHosts == { Empty, Str(<<"a">>), Str(<<"[", ":", ":", "1", "]">>) }

(***************************************************************************)
(* The life of one Uri object: Spec                                        *)
(*                                                                         *)
(* uri holds the properties of the object, text and ok the argument and    *)
(* the result of its last ParseFromString, stage the stage that call       *)
(* returned from, op the last member function called, out the string the   *)
(* last GenerateString returned, calls the number of mutating calls made.  *)
(***************************************************************************)

\* Uri::Uri()
Init ==
    /\ uri = Fresh
    /\ ref = Fresh
    /\ target = Fresh
    /\ text = Empty
    /\ ok = FALSE
    /\ stage = "none"
    /\ op = "Uri"
    /\ out = Empty
    /\ calls = 0

\* What uri.ParseFromString(uriString) does to the object and what it returns.
ParseFromStringReturns(uriString, r) ==
    /\ uri' = r.u
    /\ ok' = r.ok
    /\ stage' = r.stage
    /\ text' = uriString
    /\ op' = "ParseFromString"
    /\ out' = Empty

ParseFromStringCall(uriString) ==
    ParseFromStringReturns(uriString, ParseFromString(uri, uriString))

\* A mutating call on uri other than ParseFromString, leaving properties u.
Mutate(name, u) ==
    /\ calls < MaxCalls
    /\ calls' = calls + 1
    /\ uri' = u
    /\ op' = name
    /\ out' = Empty
    /\ UNCHANGED <<ref, target, text, ok, stage>>

DoParseFromString ==
    \E uriString \in LifecycleTexts :
        /\ calls < MaxCalls
        /\ calls' = calls + 1
        /\ ParseFromStringCall(uriString)
        /\ UNCHANGED <<ref, target>>

SetScheme ==
    \E scheme \in LifecycleStrings :
        Mutate("SetScheme", [uri EXCEPT !.scheme = scheme])

SetUserInfo ==
    \E userinfo \in LifecycleStrings :
        Mutate("SetUserInfo", [uri EXCEPT !.userInfo = userinfo])

SetHost ==
    \E host \in LifecycleStrings :
        Mutate("SetHost", [uri EXCEPT !.host = host])

SetPort ==
    \E port \in LifecyclePorts :
        Mutate("SetPort", [uri EXCEPT !.port = port, !.hasPort = TRUE])

ClearPort == Mutate("ClearPort", [uri EXCEPT !.hasPort = FALSE])

SetPath ==
    \E path \in LifecyclePaths :
        Mutate("SetPath", [uri EXCEPT !.path = path])

ClearQuery == Mutate("ClearQuery", [uri EXCEPT !.hasQuery = FALSE])

SetQuery ==
    \E query \in LifecycleStrings :
        Mutate("SetQuery", [uri EXCEPT !.query = query, !.hasQuery = TRUE])

ClearFragment == Mutate("ClearFragment", [uri EXCEPT !.hasFragment = FALSE])

SetFragment ==
    \E fragment \in LifecycleStrings :
        Mutate("SetFragment", [uri EXCEPT !.fragment = fragment, !.hasFragment = TRUE])

DoNormalizePath == Mutate("NormalizePath", NormalizePath(uri))

\* GenerateString is const: it changes nothing of the object.
DoGenerateString ==
    /\ op # "GenerateString"
    /\ out' = GenerateString(uri)
    /\ op' = "GenerateString"
    /\ UNCHANGED <<uri, ref, target, text, ok, stage, calls>>

Next ==
    \/ DoParseFromString
    \/ SetScheme
    \/ SetUserInfo
    \/ SetHost
    \/ SetPort
    \/ ClearPort
    \/ SetPath
    \/ ClearQuery
    \/ SetQuery
    \/ ClearFragment
    \/ SetFragment
    \/ DoNormalizePath
    \/ DoGenerateString

Spec == Init /\ [][Next]_vars

(***************************************************************************)
(* Parsing a text, serializing the result and parsing that: SpecParse      *)
(*                                                                         *)
(* uri is parsed from text, out is uri.GenerateString(), and ref is a      *)
(* second object parsed from out; ok is then the result of that parse.     *)
(***************************************************************************)

ParseText ==
    \E uriString \in ParseTexts :
        /\ op = "Uri"
        /\ ParseFromStringCall(uriString)
        /\ UNCHANGED <<ref, target, calls>>

GenerateParsed ==
    /\ op = "ParseFromString"
    /\ ok
    /\ out' = GenerateString(uri)
    /\ op' = "GenerateString"
    /\ UNCHANGED <<uri, ref, target, text, ok, stage, calls>>

\* What ref.ParseFromString(out) does to ref and what it returns.
ParseGeneratedReturns(r) ==
    /\ ref' = r.u
    /\ ok' = r.ok
    /\ stage' = r.stage

ParseGenerated ==
    /\ op = "GenerateString"
    /\ ParseGeneratedReturns(ParseFromString(ref, out))
    /\ op' = "ParseGenerated"
    /\ UNCHANGED <<uri, target, text, out, calls>>

NextParse == ParseText \/ GenerateParsed \/ ParseGenerated

SpecParse == Init /\ [][NextParse]_vars

(***************************************************************************)
(* Normalizing a path: SpecNormalize                                       *)
(***************************************************************************)

\* SetPath; the copy taken before an earlier NormalizePath is dropped.
SetAnyPath ==
    \E path \in NormalizePaths :
        /\ uri' = [uri EXCEPT !.path = path]
        /\ ref' = Fresh
        /\ op' = "SetPath"
        /\ UNCHANGED <<target, text, ok, stage, out, calls>>

\* ref is a copy of the object (Uri's copy constructor) taken before the call.
NormalizeAnyPath ==
    /\ ref' = uri
    /\ uri' = NormalizePath(uri)
    /\ op' = "NormalizePath"
    /\ UNCHANGED <<target, text, ok, stage, out, calls>>

NextNormalize == SetAnyPath \/ NormalizeAnyPath

SpecNormalize == Init /\ [][NextNormalize]_vars

(***************************************************************************)
(* Resolving a reference against a base: SpecResolve                       *)
(*                                                                         *)
(* uri is the base and ref the reference, each parsed successfully from a  *)
(* text; the reference's query may then be set and cleared; target is      *)
(* uri.Resolve(ref).                                                       *)
(***************************************************************************)

ParseBaseReturns(r) ==
    /\ r.ok
    /\ uri' = r.u

ParseBase ==
    \E uriString \in BaseTexts :
        /\ op = "Uri"
        /\ ParseBaseReturns(ParseFromString(uri, uriString))
        /\ op' = "ParseBase"
        /\ UNCHANGED <<ref, target, text, ok, stage, out, calls>>

ParseReferenceReturns(r) ==
    /\ r.ok
    /\ ref' = r.u

ParseReference ==
    \E uriString \in ReferenceTexts :
        /\ op = "ParseBase"
        /\ ParseReferenceReturns(ParseFromString(ref, uriString))
        /\ op' = "ParseReference"
        /\ UNCHANGED <<uri, target, text, ok, stage, out, calls>>

\* A mutating call on the reference, leaving properties u.
MutateReference(name, u) ==
    /\ op \in {"ParseReference", "SetQuery", "ClearQuery"}
    /\ calls < MaxCalls
    /\ calls' = calls + 1
    /\ ref' = u
    /\ op' = name
    /\ UNCHANGED <<uri, target, text, ok, stage, out>>

SetReferenceQuery ==
    \E query \in LifecycleStrings :
        MutateReference("SetQuery", [ref EXCEPT !.query = query, !.hasQuery = TRUE])

ClearReferenceQuery == MutateReference("ClearQuery", [ref EXCEPT !.hasQuery = FALSE])

DoResolve ==
    /\ op \in {"ParseReference", "SetQuery", "ClearQuery"}
    /\ target' = Resolve(uri, ref)
    /\ op' = "Resolve"
    /\ UNCHANGED <<uri, ref, text, ok, stage, out, calls>>

NextResolve == ParseBase \/ ParseReference \/ SetReferenceQuery
               \/ ClearReferenceQuery \/ DoResolve

SpecResolve == Init /\ [][NextResolve]_vars

(***************************************************************************)
(* Parsing the host and the port of an authority: SpecAuthority            *)
(*                                                                         *)
(* uri is parsed from text, which is "//", a host and possibly ':' and a   *)
(* port text; out is uri.GenerateString().                                 *)
(***************************************************************************)

ParseIpv6Host ==
    \E address \in Ipv6Addresses :
        /\ op = "Uri"
        /\ ParseFromStringCall(Str(<<"/", "/", "[">>) \o address \o Str(<<"]">>))
        /\ UNCHANGED <<ref, target, calls>>

ParsePortText ==
    \E host \in PortHosts, portString \in PortTexts :
        /\ op = "Uri"
        /\ ParseFromStringCall(Str(<<"/", "/">>) \o host \o Str(<<":">>) \o portString)
        /\ UNCHANGED <<ref, target, calls>>

\* The host texts: an IP literal cut short at each state of the host loop
\* or closed, with nothing, a port or something else after it, and reg-names
\* with whole and truncated escapes.
HostTexts ==
    { Str(<<"[">>) \o literal \o after :
        literal \in { Empty, Str(<<":", ":", "1">>), Str(<<"1", ":", ":">>), Str(<<"v">>), Str(<<"v", "1">>), Str(<<"v", "1", ".">>), Str(<<"v", "1", ".", "x">>), Str(<<"v", "g", ".", "x">>), Str(<<":", ":", "1", "%", "4", "1">>) },
        after \in { Empty, Str(<<"]">>), Str(<<"]", ":">>), Str(<<"]", ":", "8">>), Str(<<"]", "8">>), Str(<<"]", "x">>), Str(<<"]", "]">>), Str(<<"]", "[">>), Str(<<"]", "%", "4", "1">>), Str(<<"]", " ">>) } }
    \cup { regName \o after :
        regName \in { Str(<<"a">>), Str(<<"a", "%">>), Str(<<"a", "%", "4">>), Str(<<"a", "%", "4", "1">>), Str(<<"%">>), Str(<<"%", "4">>), Str(<<"%", "4", "g">>), Str(<<"a", "%", "4", "1", "%">>), Str(<<"a", "]">>) },
        after \in { Empty, Str(<<":">>), Str(<<":", "8">>) } }

\* The host text alone, after a user-info and before a path.
ParseHostText ==
    \E hostPortString \in HostTexts,
       before \in { Str(<<"/", "/">>), Str(<<"/", "/", "u", "@">>) },
       after \in { Empty, Str(<<"/", "p">>) } :
        /\ op = "Uri"
        /\ ParseFromStringCall(before \o hostPortString \o after)
        /\ UNCHANGED <<ref, target, calls>>

NextAuthority == ParseIpv6Host \/ ParsePortText \/ ParseHostText \/ GenerateParsed

SpecAuthority == Init /\ [][NextAuthority]_vars

(***************************************************************************)
(* The file-local functions, each called on its own: text is the string    *)
(* argument, ok the flag returned and out the string returned.             *)
(***************************************************************************)

\* The most groups an IPv4 text is written with.
MaxOctets == 5

\* The groups joined by '.'.
RECURSIVE JoinDots(_)
JoinDots(groups) ==
    IF Len(groups) = 1 THEN groups[1]
    ELSE groups[1] \o Str(<<".">>) \o JoinDots(Tail(groups))

\* The IPv4 texts: one to MaxOctets groups, empty ones included, and quads
\* with longer groups.
Ipv4Texts ==
    { JoinDots(groups) :
        groups \in SeqsUpTo({ Empty, Str(<<"7">>), Str(<<"2", "5", "5">>), Str(<<"2", "5", "6">>), Str(<<"a">>) }, MaxOctets) \ {<< >>} }
    \cup { Str(<<"1", ".", "2", ".", "3", ".", "0", "2", "5", "5">>), Str(<<"0", "1", ".", "0", "0", "2", ".", "3", ".", "4">>), Str(<<"1", ".", "2", ".", "3", ".", "1", "0", "0", "0">>), Str(<<"1", "9", "2", ".", "1", "6", "8", ".", "1", "0", ".", "2", "4", "9">>),
           Str(<<"1", ".", "2", ".", "3", ".", "4", " ">>), Str(<<"1", ".", "2", ".", "3", ".", "-", "4">>), Str(<<"1", ",", "2", ".", "3", ".", "4">>) }

CallValidateIpv4Address ==
    \E address \in Ipv4Texts :
        /\ op = "Uri"
        /\ text' = address
        /\ ok' = ValidateIpv4Address(address)
        /\ op' = "ValidateIpv4Address"
        /\ UNCHANGED <<uri, ref, target, stage, out, calls>>

\* The longest of the octet texts that are enumerated.
MaxOctetLen == 4

\* The octet texts: the short runs of a few digits and of a letter, and runs
\* of ten digits and more around the powers of two where an int wraps.
OctetTexts ==
    SeqsUpTo({ Ord["0"], Ord["2"], Ord["5"], Ord["6"], Ord["9"], Ord["a"] }, MaxOctetLen)
    \cup { Str(<<"0", "0", "0", "0", "0", "0", "0", "2", "5", "5">>), Str(<<"0", "0", "0", "0", "0", "0", "0", "0", "2", "5", "6">>), Str(<<"2", "1", "4", "7", "4", "8", "3", "6", "4", "7">>), Str(<<"2", "1", "4", "7", "4", "8", "3", "6", "4", "8">>),
           Str(<<"2", "1", "4", "7", "4", "8", "3", "9", "0", "3">>), Str(<<"4", "2", "9", "4", "9", "6", "7", "2", "9", "5">>), Str(<<"4", "2", "9", "4", "9", "6", "7", "2", "9", "6">>), Str(<<"4", "2", "9", "4", "9", "6", "7", "5", "5", "1">>),
           Str(<<"4", "2", "9", "4", "9", "6", "7", "5", "5", "2">>), Str(<<"8", "5", "8", "9", "9", "3", "4", "5", "9", "2">>), Str(<<"9", "9", "9", "9", "9", "9", "9", "9", "9", "9">>), Str(<<"4", "2", "9", "4", "9", "6", "7", "2", "9", "6", "0">>),
           Str(<<"9", "9", "9", "9", "9", "9", "9", "9", "9", "9", "9", "9", "9", "9", "9", "9", "9", "9", "9", "9">>) }

CallValidateOctet ==
    \E octetString \in OctetTexts :
        /\ op = "Uri"
        /\ text' = octetString
        /\ ok' = ValidateOctet(octetString)
        /\ op' = "ValidateOctet"
        /\ UNCHANGED <<uri, ref, target, stage, out, calls>>

\* The longest element handed to EncodeElement.
MaxElementLen == 2

\* The bytes of the elements to encode: control bytes, characters inside and
\* outside the sets, '%' itself and bytes from 0x80 on.
ElementBytes ==
    { 0, 10, Ord[" "], Ord["%"], Ord["+"], Ord["/"], Ord[":"], Ord["@"],
      Ord["Z"], Ord["a"], Ord["~"], 127, 128, 171, 255 }

\* The sets GenerateString hands to EncodeElement, by name.
AllowedCharacters ==
    [ name \in { "USER_INFO_NOT_PCT_ENCODED", "REG_NAME_NOT_PCT_ENCODED",
                 "PCHAR_NOT_PCT_ENCODED", "QUERY_NOT_PCT_ENCODED_WITHOUT_PLUS",
                 "QUERY_OR_FRAGMENT_NOT_PCT_ENCODED" } |->
        CASE name = "USER_INFO_NOT_PCT_ENCODED" -> USER_INFO_NOT_PCT_ENCODED
          [] name = "REG_NAME_NOT_PCT_ENCODED" -> REG_NAME_NOT_PCT_ENCODED
          [] name = "PCHAR_NOT_PCT_ENCODED" -> PCHAR_NOT_PCT_ENCODED
          [] name = "QUERY_NOT_PCT_ENCODED_WITHOUT_PLUS" -> QUERY_NOT_PCT_ENCODED_WITHOUT_PLUS
          [] name = "QUERY_OR_FRAGMENT_NOT_PCT_ENCODED" -> QUERY_OR_FRAGMENT_NOT_PCT_ENCODED ]

\* EncodeElement(element, allowedCharacters); stage names the set.
CallEncodeElement ==
    \E element \in SeqsUpTo(ElementBytes, MaxElementLen), name \in DOMAIN AllowedCharacters :
        /\ op = "Uri"
        /\ text' = element
        /\ stage' = name
        /\ out' = EncodeElement(element, AllowedCharacters[name])
        /\ op' = "EncodeElement"
        /\ UNCHANGED <<uri, ref, target, ok, calls>>

NextFunctions == CallValidateIpv4Address \/ CallValidateOctet \/ CallEncodeElement

SpecFunctions == Init /\ [][NextFunctions]_vars

(***************************************************************************)
(* Properties                                                              *)
(***************************************************************************)

\* C1 (SpecParse): round trip.  For every text on which ParseFromString
\* succeeds giving uri, ParseFromString of uri.GenerateString() succeeds too
\* and gives a Uri equal to uri under operator==.
C1_RoundTrip ==
    op = "ParseGenerated" => (ok /\ UriEquals(ref, uri))

\* C2 (Spec): full reset.  Whatever calls came before, a successful
\* ParseFromString(text) leaves every accessor returning what it returns
\* after ParseFromString(text) on a freshly constructed Uri.
C2_FullReset ==
    (op = "ParseFromString" /\ ok) => uri = ParseFromString(Fresh, text).u

\* C3 (SpecParse): after a successful ParseFromString, a Uri that has an
\* authority (a host, a user-info or a port) has a non-empty path.
C3_AuthorityHasPath ==
    (op = "ParseFromString" /\ ok /\ HasAuthority(uri)) => uri.path # << >>

\* A path with its last segment removed if it has more than one segment.
WithoutLastSegment(path) ==
    IF Len(path) > 1 THEN [i \in 1..(Len(path) - 1) |-> path[i]] ELSE path

SameAuthority(a, b) ==
    /\ a.userInfo = b.userInfo
    /\ a.host = b.host
    /\ a.hasPort = b.hasPort
    /\ a.port = b.port

SameQuery(a, b) == a.hasQuery = b.hasQuery /\ a.query = b.query

\* The base of the resolution examples of RFC 3986, section 5.4.
ExampleBase == ParseFromString(Fresh, Str(<<"h", "t", "t", "p", ":", "/", "/", "a", "/", "b", "/", "c", "/", "d", ";", "p", "?", "q">>)).u

\* The target of the example base and the reference parsed from referenceText
\* is rendered as targetText.
ExampleResolvesTo(referenceText, targetText) ==
    (uri = ExampleBase /\ ref = ParseFromString(Fresh, referenceText).u)
        => GenerateString(target) = targetText

\* C4 (SpecResolve): merge branch.  When the reference has no scheme, an
\* empty host and a non-empty path that is not absolute, the target's path is
\* NormalizePath of the base's path without its last segment (kept when it is
\* the only one) followed by the reference's segments; scheme and authority
\* are the base's and the query is the reference's.  Against the example
\* base, "g" gives http://a/b/c/g and "../../../g" gives http://a/g.
C4_MergeBranch ==
    (op = "Resolve" /\ ref.scheme = Empty /\ ref.host = Empty
        /\ ref.path # << >> /\ ~IsPathAbsolute(ref))
    => /\ target.path
            = NormalizePath([Fresh EXCEPT
                  !.path = WithoutLastSegment(uri.path) \o ref.path]).path
       /\ target.scheme = uri.scheme
       /\ SameAuthority(target, uri)
       /\ SameQuery(target, ref)
       /\ ExampleResolvesTo(Str(<<"g">>),
              Str(<<"h", "t", "t", "p", ":", "/", "/", "a", "/", "b", "/", "c", "/", "g">>))
       /\ ExampleResolvesTo(Str(<<".", ".", "/", ".", ".", "/", ".", ".", "/", "g">>),
              Str(<<"h", "t", "t", "p", ":", "/", "/", "a", "/", "g">>))

C4_Witness ==
    /\ op = "Resolve"
    /\ uri = ExampleBase
    /\ ref.scheme = Empty /\ ref.host = Empty
    /\ ref.path = <<Str(<<".", ".">>), Str(<<".", ".">>), Str(<<".", ".">>), Str(<<"g">>)>>
    /\ target.path = <<Empty, Str(<<"g">>)>>

\* C5 (SpecResolve): empty-path branch.  When the reference has no scheme, an
\* empty host and an empty path, the target's path is the base's path as it
\* is, its query (flag and value) is the reference's if the reference's query
\* string is non-empty and the base's otherwise, and scheme and authority are
\* the base's.  Against the example base, "" gives http://a/b/c/d;p?q and
\* "?y" gives http://a/b/c/d;p?y.
C5_EmptyPathBranch ==
    (op = "Resolve" /\ ref.scheme = Empty /\ ref.host = Empty /\ ref.path = << >>)
    => /\ target.path = uri.path
       /\ (ref.query # Empty => SameQuery(target, ref))
       /\ (ref.query = Empty => SameQuery(target, uri))
       /\ target.scheme = uri.scheme
       /\ SameAuthority(target, uri)
       /\ ExampleResolvesTo(Empty,
              Str(<<"h", "t", "t", "p", ":", "/", "/", "a", "/", "b", "/", "c", "/", "d", ";", "p", "?", "q">>))
       /\ ExampleResolvesTo(Str(<<"?", "y">>),
              Str(<<"h", "t", "t", "p", ":", "/", "/", "a", "/", "b", "/", "c", "/", "d", ";", "p", "?", "y">>))

C5_Witness ==
    /\ op = "Resolve"
    /\ ref.scheme = Empty /\ ref.host = Empty /\ ref.path = << >>
    /\ ref.hasQuery /\ ref.query = Empty
    /\ uri.hasQuery /\ uri.query = Str(<<"q">>)
    /\ uri.path = <<Empty, Str(<<"b">>), Str(<<"c">>), Str(<<"d", ";", "p">>)>>
    /\ target.path = uri.path
    /\ target.query = Str(<<"q">>)

\* C6 (SpecResolve): scheme branch.  When the reference has a scheme, the
\* target's scheme, user-info, host, port and query are the reference's and
\* its path is NormalizePath of the reference's path; with the fragment, which
\* is the reference's too, every property of the target is decided by the
\* reference alone.
C6_SchemeBranch ==
    (op = "Resolve" /\ ref.scheme # Empty)
    => /\ target.scheme = ref.scheme
       /\ SameAuthority(target, ref)
       /\ SameQuery(target, ref)
       /\ target.path = NormalizePath(ref).path
       /\ target = [ref EXCEPT !.path = NormalizePath(ref).path]

C6_Witness ==
    /\ op = "Resolve"
    /\ uri = ExampleBase
    /\ ref.scheme = Str(<<"s">>)
    /\ ref.path = <<Str(<<"a">>), Str(<<".", ".">>), Str(<<"b">>)>>
    /\ target.scheme = Str(<<"s">>)
    /\ target.host = Empty
    /\ target.path = <<Str(<<"b">>)>>

\* C7 (SpecResolve): when the reference has no scheme and an authority
\* component is present in it (a host, a user-info or a port), the target's
\* user-info, host and port are the reference's.
C7_AuthorityFromReference ==
    (op = "Resolve" /\ ref.scheme = Empty /\ HasAuthority(ref))
    => SameAuthority(target, ref)

\* C8 (SpecResolve): in every branch the target's fragment flag and value are
\* the reference's; the base's fragment never reaches the target.
C8_FragmentFromReference ==
    op = "Resolve"
    => (target.hasFragment = ref.hasFragment /\ target.fragment = ref.fragment)

C8_Witness ==
    /\ op = "Resolve"
    /\ uri.hasFragment /\ uri.fragment = Str(<<"z">>)
    /\ ~ref.hasFragment
    /\ ~target.hasFragment /\ target.fragment = Empty

\* C9 (SpecNormalize): NormalizePath is idempotent.  Once NormalizePath has
\* been applied to a path, applying it again leaves the path as it is.
C9_NormalizeIdempotent ==
    op = "NormalizePath" => NormalizePath(uri).path = uri.path

C9_Witness ==
    /\ op = "NormalizePath"
    /\ ref.path = <<Empty, Str(<<"a">>), Str(<<".", ".">>), Str(<<".">>)>>
    /\ uri.path = <<Empty>>

\* The text has a ':' with no '/' before it.
HasSchemeDelimiter(t) ==
    \E i \in 1..Len(t) : t[i] = Ord[":"] /\ \A j \in 1..(i - 1) : t[j] # Ord["/"]

\* The text before the first ':'.
BeforeFirstColon(t) ==
    LET i == CHOOSE k \in 1..Len(t) :
                 t[k] = Ord[":"] /\ \A j \in 1..(k - 1) : t[j] # Ord[":"]
    IN [k \in 1..(i - 1) |-> t[k]]

Letters == (Ord["a"]..Ord["z"]) \cup (Ord["A"]..Ord["Z"])

\* Non-empty, a letter first, then letters, digits, '+', '-' and '.' only.
IsLegalScheme(c) ==
    /\ Len(c) >= 1
    /\ c[1] \in Letters
    /\ \A k \in 2..Len(c) :
           c[k] \in Letters \cup (Ord["0"]..Ord["9"]) \cup {Ord["+"], Ord["-"], Ord["."]}

\* s is c with every uppercase ASCII letter replaced by its lowercase letter.
IsLowercased(s, c) ==
    /\ Len(s) = Len(c)
    /\ \A k \in 1..Len(c) :
           s[k] = IF c[k] \in Ord["A"]..Ord["Z"]
                  THEN c[k] - Ord["A"] + Ord["a"]
                  ELSE c[k]

\* C10 (SpecParse): scheme parsing.  When the text has a ':' before its first
\* '/' (or a ':' and no '/'), ParseFromString gets past the scheme stage iff
\* the text before the first ':' is non-empty, starts with a letter and goes
\* on with letters, digits, '+', '-' and '.' only; otherwise the parse fails.
\* After a successful parse the scheme is that text lowercased.
C10_SchemeParsing ==
    (op = "ParseFromString" /\ HasSchemeDelimiter(text))
    => /\ (stage # "ParseScheme") <=> IsLegalScheme(BeforeFirstColon(text))
       /\ (~IsLegalScheme(BeforeFirstColon(text)) => ~ok)
       /\ (ok => IsLowercased(uri.scheme, BeforeFirstColon(text)))

C10_Witness ==
    /\ op = "ParseFromString"
    /\ ok
    /\ text = Str(<<"H", "t", ":", "/", "/", "A", ".", "b", "/">>)
    /\ uri.scheme = Str(<<"h", "t">>)

\* The index of the first character of s that is in cs, Len(s) + 1 if none.
FirstIn(s, cs) ==
    IF \E i \in 1..Len(s) : s[i] \in cs
    THEN CHOOSE i \in 1..Len(s) : s[i] \in cs /\ \A j \in 1..(i - 1) : s[j] \notin cs
    ELSE Len(s) + 1

\* The parts of s before and after its first character in cs.
Before(s, cs) == SubSeq(s, 1, FirstIn(s, cs) - 1)
After(s, cs) == SubSeq(s, FirstIn(s, cs) + 1, Len(s))

\* The text after the scheme and its ':' (the whole text if it has no scheme).
AfterScheme(t) == IF HasSchemeDelimiter(t) THEN After(t, {Ord[":"]}) ELSE t

\* The text has an authority: "//" follows the scheme.
HasAuthorityText(t) ==
    /\ Len(AfterScheme(t)) >= 2
    /\ AfterScheme(t)[1] = Ord["/"]
    /\ AfterScheme(t)[2] = Ord["/"]

\* The authority of the text: from the "//" to the next '/', '?' or '#'.
AuthorityText(t) ==
    Before(SubSeq(AfterScheme(t), 3, Len(AfterScheme(t))),
           {Ord["/"], Ord["?"], Ord["#"]})

\* The authority without its user-info and '@'.
HostPortText(t) ==
    IF Ord["@"] \in {AuthorityText(t)[i] : i \in 1..Len(AuthorityText(t))}
    THEN After(AuthorityText(t), {Ord["@"]})
    ELSE AuthorityText(t)

\* The host of the text is a bracketed IP literal.
HasBracketedHost(t) ==
    /\ HasAuthorityText(t)
    /\ HostPortText(t) # Empty
    /\ HostPortText(t)[1] = Ord["["]

\* The text between the brackets of the host.
BracketedText(t) == Before(Tail(HostPortText(t)), {Ord["]"]})

\* C11 (SpecParse): host letter case.  After a successful parse of a text
\* with an authority, a reg-name host holds no uppercase ASCII letter, the
\* letters that percent-decoding produced included; the host of a bracketed
\* IP literal is the text between the brackets with its letter case unchanged.
C11_HostCase ==
    (op = "ParseFromString" /\ ok /\ HasAuthorityText(text))
    => IF HasBracketedHost(text)
       THEN uri.host = BracketedText(text)
       ELSE \A i \in 1..Len(uri.host) : uri.host[i] \notin Ord["A"]..Ord["Z"]

C11_Witness ==
    /\ op = "ParseFromString"
    /\ ok
    /\ text = Str(<<"H", "t", ":", "/", "/", "a", "%", "4", "1", "/">>)
    /\ uri.host = Str(<<"a", "a">>)

IsHexDigit(c) ==
    \/ c \in Ord["0"]..Ord["9"]
    \/ c \in Ord["a"]..Ord["f"]
    \/ c \in Ord["A"]..Ord["F"]

\* Every character of a is a hexadecimal digit or ':'.
IsHexAndColons(a) == \A i \in 1..Len(a) : IsHexDigit(a[i]) \/ a[i] = Ord[":"]

\* The places of a where "::" is written.
DoubleColons(a) == { i \in 1..(Len(a) - 1) : a[i] = Ord[":"] /\ a[i + 1] = Ord[":"] }

\* The places of a (hexadecimal digits and ':' only) where a group starts.
GroupStarts(a) == { i \in 1..Len(a) : IsHexDigit(a[i]) /\ (i = 1 \/ a[i - 1] = Ord[":"]) }

\* Some group of a has more than 4 digits.
HasLongGroup(a) == \E i \in 1..(Len(a) - 4) : \A k \in 0..4 : IsHexDigit(a[i + k])

HasLoneLeadingColon(a) ==
    Len(a) >= 1 /\ a[1] = Ord[":"] /\ (Len(a) = 1 \/ a[2] # Ord[":"])

HasLoneTrailingColon(a) ==
    Len(a) >= 1 /\ a[Len(a)] = Ord[":"] /\ (Len(a) = 1 \/ a[Len(a) - 1] # Ord[":"])

\* The groups of a, followed by more groups to the number of extra, make an
\* address: groups of 1 to 4 digits, at most one "::", no lone leading ':',
\* 8 groups in all without "::" and at most 7 with it.
IsGroupCountLegal(a, extra) ==
    /\ ~HasLongGroup(a)
    /\ Cardinality(DoubleColons(a)) <= 1
    /\ ~HasLoneLeadingColon(a)
    /\ (DoubleColons(a) = {} => Cardinality(GroupStarts(a)) + extra = 8)
    /\ (DoubleColons(a) # {} => Cardinality(GroupStarts(a)) + extra <= 7)

\* The text is "//", a bracketed host and nothing else.
IsBracketedHostOnly(t) ==
    /\ HasBracketedHost(t)
    /\ t = Str(<<"/", "/", "[">>) \o BracketedText(t) \o Str(<<"]">>)

\* C12 (SpecAuthority): IPv6 group counting.  A text that is "//" and a
\* bracketed host of hexadecimal digits and ':' only parses successfully iff
\* every group has 1 to 4 digits, "::" occurs at most once, no lone ':' leads
\* or trails, and the groups are exactly 8 without "::" or at most 7 with it.
\* [1:2:3:4:5:6:7:8] and [::1] are accepted, [1:2:3:4:5:6:7:8:9] and
\* [1::2::3] are rejected.
C12_Ipv6GroupCount ==
    (op = "ParseFromString" /\ IsBracketedHostOnly(text)
        /\ IsHexAndColons(BracketedText(text)))
    => /\ ok <=> (IsGroupCountLegal(BracketedText(text), 0)
                    /\ ~HasLoneTrailingColon(BracketedText(text)))
       /\ (text \in { Str(<<"/", "/", "[", "1", ":", "2", ":", "3", ":", "4", ":", "5", ":", "6", ":", "7", ":", "8", "]">>), Str(<<"/", "/", "[", ":", ":", "1", "]">>) } => ok)
       /\ (text \in { Str(<<"/", "/", "[", "1", ":", "2", ":", "3", ":", "4", ":", "5", ":", "6", ":", "7", ":", "8", ":", "9", "]">>), Str(<<"/", "/", "[", "1", ":", ":", "2", ":", ":", "3", "]">>) } => ~ok)

C12_Witness ==
    /\ op = "ParseFromString"
    /\ ok
    /\ text = Str(<<"/", "/", "[", "1", ":", "2", ":", "3", ":", "4", ":", "5", ":", "6", ":", "7", ":", "8", "]">>)
    /\ uri.host = Str(<<"1", ":", "2", ":", "3", ":", "4", ":", "5", ":", "6", ":", "7", ":", "8">>)

\* The dotted quads written at the end of an address.
ValidQuads == { Str(<<"1", ".", "2", ".", "3", ".", "4">>), Str(<<"1", "0", ".", "0", ".", "2", "5", "5", ".", "9">>) }

EndsWith(a, q) == Len(a) >= Len(q) /\ SubSeq(a, Len(a) - Len(q) + 1, Len(a)) = q

\* The address ends with a dotted quad that follows hexadecimal groups, each
\* with its ':'.
HasEmbeddedQuad(a) ==
    \E q \in ValidQuads :
        /\ EndsWith(a, q)
        /\ IsHexAndColons(SubSeq(a, 1, Len(a) - Len(q)))
        /\ (Len(a) = Len(q) \/ a[Len(a) - Len(q)] = Ord[":"])

\* The part of the address before its dotted quad.
BeforeQuad(a) ==
    SubSeq(a, 1, Len(a) - Len(CHOOSE q \in ValidQuads : EndsWith(a, q)))

\* C13 (SpecAuthority): an embedded dotted quad counts as 2 groups.  A text
\* that is "//" and a bracketed host of n hexadecimal groups followed by a
\* valid dotted quad parses successfully iff n + 2 is 8 without "::", or at
\* most 7 with one "::"; so [1:2:3:4:5:6:1.2.3.4] is accepted and
\* [1:2:3:4:5:1.2.3.4] is rejected.
C13_EmbeddedIpv4 ==
    (op = "ParseFromString" /\ IsBracketedHostOnly(text)
        /\ HasEmbeddedQuad(BracketedText(text)))
    => (ok <=> IsGroupCountLegal(BeforeQuad(BracketedText(text)), 2))

\* What follows the host in the authority: nothing, or ':' and the port text.
AfterHostText(t) ==
    IF HasBracketedHost(t)
    THEN After(HostPortText(t), {Ord["]"]})
    ELSE SubSeq(HostPortText(t), FirstIn(HostPortText(t), {Ord[":"]}),
                Len(HostPortText(t)))

\* The host of the text is followed by the ':' that starts the port.
HasPortDelimiter(t) ==
    /\ HasAuthorityText(t)
    /\ AfterHostText(t) # Empty
    /\ AfterHostText(t)[1] = Ord[":"]

\* The text after the ':' that follows the host.
PortText(t) == Tail(AfterHostText(t))

IsDecimalDigits(p) == \A i \in 1..Len(p) : p[i] \in Ord["0"]..Ord["9"]

\* The digits of p without the leading zeros.
WithoutLeadingZeros(p) ==
    SubSeq(p, FirstIn(p, Ord["1"]..Ord["9"]), Len(p))

\* The value of a short run of decimal digits.
RECURSIVE DecimalValue(_)
DecimalValue(p) ==
    IF p = << >> THEN 0
    ELSE DecimalValue(SubSeq(p, 1, Len(p) - 1)) * 10 + (p[Len(p)] - Ord["0"])

\* The decimal value of the digits p is at most 65535.
IsPortValue(p) ==
    /\ Len(WithoutLeadingZeros(p)) <= 5
    /\ DecimalValue(WithoutLeadingZeros(p)) <= 65535

\* The text is "//", a well-formed host without user-info, ':' and a port
\* text, and nothing else.
IsHostAndPortOnly(t) ==
    /\ HasPortDelimiter(t)
    /\ \E host \in PortHosts : t = Str(<<"/", "/">>) \o host \o Str(<<":">>) \o PortText(t)

\* C14 (SpecAuthority): port range.  When the text after the host's ':' is
\* decimal digits only, however many, the parse succeeds iff their value is at
\* most 65535, and then HasPort is true and GetPort is that value; when that
\* text is empty the parse succeeds with HasPort false.  "65535" is accepted
\* and "65536" is rejected.
C14_PortRange ==
    (op = "ParseFromString" /\ IsHostAndPortOnly(text)
        /\ IsDecimalDigits(PortText(text)))
    => IF PortText(text) = Empty
       THEN ok /\ ~uri.hasPort
       ELSE /\ ok <=> IsPortValue(PortText(text))
            /\ ok => (uri.hasPort
                        /\ uri.port = DecimalValue(WithoutLeadingZeros(PortText(text))))
            /\ (PortText(text) = Str(<<"6", "5", "5", "3", "5">>) => ok)
            /\ (PortText(text) = Str(<<"6", "5", "5", "3", "6">>) => ~ok)

C14_Witness ==
    /\ op = "ParseFromString"
    /\ ok
    /\ text = Str(<<"/", "/", "a", ":", "0", "0", "0", "0", "0", "6", "5", "5", "3", "5">>)
    /\ uri.hasPort
    /\ uri.port = 65535

\* C15 (SpecAuthority): a port text that is not decimal digits only fails the
\* parse.  If the text after the host's ':' holds a character that is not a
\* decimal digit (a sign, a space, letters after digits as in "80abc"),
\* ParseFromString returns false.
C15_NonDigitPort ==
    (op = "ParseFromString" /\ HasPortDelimiter(text)
        /\ ~IsDecimalDigits(PortText(text)))
    => ~ok

\* The user-info of the text, empty if it has none.
UserInfoText(t) ==
    IF HasAuthorityText(t)
       /\ Ord["@"] \in {AuthorityText(t)[i] : i \in 1..Len(AuthorityText(t))}
    THEN Before(AuthorityText(t), {Ord["@"]})
    ELSE Empty

\* The reg-name host of the text, empty if it has none.
RegNameText(t) ==
    IF HasAuthorityText(t) /\ ~HasBracketedHost(t)
    THEN Before(HostPortText(t), {Ord[":"]})
    ELSE Empty

\* The path of the text: what follows the scheme and the authority, up to the
\* first '?' or '#'.
PathText(t) ==
    IF HasAuthorityText(t)
    THEN SubSeq(Before(AfterScheme(t), {Ord["?"], Ord["#"]}),
                3 + Len(AuthorityText(t)),
                Len(Before(AfterScheme(t), {Ord["?"], Ord["#"]})))
    ELSE Before(AfterScheme(t), {Ord["?"], Ord["#"]})

\* The text from the first '?' or '#' on.
QueryAndFragmentText(t) ==
    SubSeq(AfterScheme(t), FirstIn(AfterScheme(t), {Ord["?"], Ord["#"]}),
           Len(AfterScheme(t)))

\* The text after the first '#'.
FragmentText(t) == After(QueryAndFragmentText(t), {Ord["#"]})

\* The text between the '?' and the first '#'.
QueryText(t) ==
    IF Before(QueryAndFragmentText(t), {Ord["#"]}) = Empty THEN Empty
    ELSE Tail(Before(QueryAndFragmentText(t), {Ord["#"]}))

\* e holds a '%' whose first or second following character, within the
\* element (delimiters end it), is not a hexadecimal digit.
HasBadEscape(e, delimiters) ==
    \E i \in 1..Len(e) :
        /\ e[i] = Ord["%"]
        /\ i + 1 <= Len(e)
        /\ e[i + 1] \notin delimiters
        /\ \/ ~IsHexDigit(e[i + 1])
           \/ /\ i + 2 <= Len(e)
              /\ e[i + 2] \notin delimiters
              /\ ~IsHexDigit(e[i + 2])

\* C16 (SpecParse): decode failure propagation.  ParseFromString returns
\* false whenever the user-info, a reg-name host, a path segment, the query or
\* the fragment of the text holds a '%' whose first or second following
\* character is not a hexadecimal digit, wherever in the element it stands.
C16_DecodeFailure ==
    (op = "ParseFromString"
        /\ \/ HasBadEscape(UserInfoText(text), {})
           \/ HasBadEscape(RegNameText(text), {})
           \/ HasBadEscape(PathText(text), {Ord["/"]})
           \/ HasBadEscape(QueryText(text), {})
           \/ HasBadEscape(FragmentText(text), {}))
    => ~ok

C16_Witness ==
    /\ op = "ParseFromString"
    /\ ~ok
    /\ text = Str(<<"h", ":", "/", "/", "u", "@", "a", "/", "p", "/", "b", "%", "1", "g", "c", "?", "q", "#", "f">>)
    /\ stage = "ParsePath"

\* C17 (SpecParse): the query is decoded against a set without '+'.  A text
\* whose query holds a literal '+' makes ParseFromString return false.
C17_QueryPlus ==
    (op = "ParseFromString"
        /\ Ord["+"] \in {QueryText(text)[i] : i \in 1..Len(QueryText(text))})
    => ~ok

\* The number of '+' in s.
Pluses(s) == Cardinality({ i \in 1..Len(s) : s[i] = Ord["+"] })

\* The number of places of s where "%2B" is written.
EncodedPluses(s) ==
    Cardinality({ i \in 1..(Len(s) - 2) : SubSeq(s, i, i + 2) = Str(<<"%", "2", "B">>) })

\* The number of '+' in the segments of a path.
RECURSIVE PathPluses(_)
PathPluses(path) ==
    IF path = << >> THEN 0 ELSE Pluses(Head(path)) + PathPluses(Tail(path))

\* C18 (Spec): '+' in GenerateString.  For every Uri with HasQuery true, the
\* query part of GenerateString() holds no literal '+' and each '+' of the
\* stored query is written "%2B"; a '+' of the fragment or of a path segment
\* is written as it is.
C18_QueryPlusEncoded ==
    op = "GenerateString"
    => /\ uri.hasQuery
          => /\ Pluses(QueryText(out)) = 0
             /\ EncodedPluses(QueryText(out)) = Pluses(uri.query)
       /\ uri.hasFragment => Pluses(FragmentText(out)) = Pluses(uri.fragment)
       /\ Pluses(PathText(out)) = PathPluses(uri.path)

C18_Witness ==
    /\ op = "GenerateString"
    /\ uri.hasQuery /\ uri.query = Str(<<"a", "+">>)
    /\ uri.hasFragment /\ uri.fragment = Str(<<"a", "+">>)
    /\ out = Str(<<"?", "a", "%", "2", "B", "#", "a", "+">>)

\* The text has an authority with a non-empty host and no path text.
HasHostAndNoPath(t) ==
    /\ HasAuthorityText(t)
    /\ HostPortText(t) # Empty
    /\ HostPortText(t)[1] # Ord[":"]
    /\ PathText(t) = Empty

\* C19 (SpecParse): the absolute-path sentinel.  After a successful parse of
\* a text with a non-empty host and no path text the path is [""] and
\* ContainsRelativePath is false, and GenerateString() writes the path as one
\* '/' right after the authority; a path [""] is always written "/".
C19_PathSentinel ==
    /\ (op \in {"ParseFromString", "GenerateString"} /\ ok /\ HasHostAndNoPath(text))
       => /\ uri.path = <<Empty>>
          /\ ~ContainsRelativePath(uri)
          /\ op = "GenerateString"
             => (HasAuthorityText(out) /\ PathText(out) = Str(<<"/">>))
    /\ (op = "GenerateString" /\ uri.path = <<Empty>>) => PathText(out) = Str(<<"/">>)

C19_Witness ==
    /\ op = "GenerateString"
    /\ text = Str(<<"H", "t", ":", "/", "/", "A", ".", "b", "?", "q", "#", "f">>)
    /\ uri.path = <<Empty>>
    /\ out = Str(<<"h", "t", ":", "/", "/", "a", ".", "b", "/", "?", "q", "#", "f">>)

\* The path starts with the empty segment.
IsAbsolute(path) == path # << >> /\ path[1] = Empty

\* C20 (SpecNormalize): NormalizePath removes every dot-segment and never
\* navigates above the root.  The result holds no "." and no ".." segment and
\* is absolute iff the path was absolute; a ".." met when only the empty first
\* segment remains removes nothing, so /a/b/../../../g becomes /g.
C20_NormalizeDotSegments ==
    op = "NormalizePath"
    => /\ \A i \in 1..Len(uri.path) : uri.path[i] \notin { Str(<<".">>), Str(<<".", ".">>) }
       /\ IsAbsolute(uri.path) <=> IsAbsolute(ref.path)
       /\ ref.path = <<Empty, Str(<<"a">>), Str(<<"b">>), Str(<<".", ".">>), Str(<<".", ".">>), Str(<<".", ".">>), Str(<<"g">>)>>
          => uri.path = <<Empty, Str(<<"g">>)>>

C20_Witness ==
    /\ op = "NormalizePath"
    /\ ref.path = <<Empty, Str(<<"a">>), Str(<<"b">>), Str(<<".", ".">>), Str(<<".", ".">>), Str(<<".", ".">>), Str(<<"g">>)>>
    /\ uri.path = <<Empty, Str(<<"g">>)>>


\* The places of a where a '.' is written.
DotPlaces(a) == { i \in 1..Len(a) : a[i] = Ord["."] }

\* The group of a that starts at place p: the text up to the next '.'.
DotGroupAt(a, p) == Before(SubSeq(a, p, Len(a)), {Ord["."]})

\* The decimal value of the digits g is at most 255.
IsOctetValue(g) ==
    /\ Len(WithoutLeadingZeros(g)) <= 3
    /\ DecimalValue(WithoutLeadingZeros(g)) <= 255

\* Splitting a on '.' gives exactly 4 groups, each a non-empty run of decimal
\* digits with a value of at most 255.
IsDottedQuad(a) ==
    /\ Cardinality(DotPlaces(a)) = 3
    /\ \A p \in {1} \cup { i + 1 : i \in DotPlaces(a) } :
        /\ DotGroupAt(a, p) # Empty
        /\ IsDecimalDigits(DotGroupAt(a, p))
        /\ IsOctetValue(DotGroupAt(a, p))

\* C21 (SpecFunctions): dotted quads.  ValidateIpv4Address accepts a string
\* iff splitting it on '.' gives exactly 4 groups, each a non-empty run of
\* decimal digits with a value of at most 255; a leading, trailing or doubled
\* '.', fewer or more than 4 groups, or a non-digit make it reject.
C21_DottedQuad ==
    op = "ValidateIpv4Address" => (ok <=> IsDottedQuad(text))

\* C26 (SpecFunctions): large octets.  ValidateOctet rejects every string of
\* decimal digits whose value exceeds 255, however long it is: with the
\* accumulator a 32-bit int that wraps around, no run of ten digits or more
\* is accepted because the accumulated value wrapped to at most 255.
C26_LargeOctetRejected ==
    (op = "ValidateOctet" /\ IsDecimalDigits(text) /\ ~IsOctetValue(text))
    => ~ok

\* The sixteen hexadecimal digits in uppercase, in order of value.
UppercaseHexDigits == Str(<<"0", "1", "2", "3", "4", "5", "6", "7", "8", "9", "A", "B", "C", "D", "E", "F">>)

\* What is written for byte b: b itself if it is in the allowed set, else '%'
\* and the two uppercase digits of b, the high nibble first.
WrittenFor(b, allowed) ==
    IF b \in allowed THEN <<b>>
    ELSE <<Ord["%"], UppercaseHexDigits[(b \div 16) + 1], UppercaseHexDigits[(b % 16) + 1]>>

\* What is written for the bytes of e, one after the other.
RECURSIVE WrittenForAll(_, _)
WrittenForAll(e, allowed) ==
    IF e = << >> THEN << >>
    ELSE WrittenFor(Head(e), allowed) \o WrittenForAll(Tail(e), allowed)

\* C23 (SpecFunctions): encoding is total and byte-wise.  EncodeElement
\* writes each byte of the allowed set unchanged and every other byte
\* (0..255, the bytes from 0x80 on and '%' itself included) as '%' followed by
\* exactly two uppercase hexadecimal digits, the high nibble first.
C23_EncodeByteWise ==
    op = "EncodeElement" => out = WrittenForAll(text, AllowedCharacters[stage])

C23_Witness ==
    /\ op = "EncodeElement"
    /\ stage = "PCHAR_NOT_PCT_ENCODED"
    /\ text = <<Ord["%"], 171>>
    /\ out = Str(<<"%", "2", "5", "%", "A", "B">>)

\* e holds a '%' that is followed, within the element (delimiters end it),
\* by the end of the element or by one hexadecimal digit and the end.
EndsInsideEscape(e, delimiters) ==
    \E i \in 1..Len(e) :
        /\ e[i] = Ord["%"]
        /\ \/ i = Len(e)
           \/ e[i + 1] \in delimiters
           \/ /\ IsHexDigit(e[i + 1])
              /\ (i + 1 = Len(e) \/ e[i + 2] \in delimiters)

\* C24 (SpecParse): truncated escapes.  A user-info, path segment, query or
\* fragment that ends with '%' or with '%' and a single hexadecimal digit
\* makes the decoding of the element fail, and ParseFromString return false.
C24_TruncatedEscape ==
    (op = "ParseFromString"
        /\ \/ EndsInsideEscape(UserInfoText(text), {})
           \/ EndsInsideEscape(PathText(text), {Ord["/"]})
           \/ EndsInsideEscape(QueryText(text), {})
           \/ EndsInsideEscape(FragmentText(text), {}))
    => ~ok

\* C25 (SpecResolve): a reference without a query.  For a reference with no
\* scheme, an empty host, an empty path and HasQuery false, whatever sequence
\* of ParseFromString, SetQuery and ClearQuery calls made it, the target's
\* HasQuery and GetQuery are the base's: a query value that SetQuery wrote and
\* ClearQuery then cleared has no effect.
C25_ReferenceWithoutQuery ==
    (op = "Resolve"
        /\ ref.scheme = Empty
        /\ ref.host = Empty
        /\ ref.path = << >>
        /\ ~ref.hasQuery)
    => (target.hasQuery = uri.hasQuery /\ target.query = uri.query)

\* C22 (SpecAuthority): the host and port state machine.  A host that starts
\* with '[' is accepted only if the literal is closed by ']' and the character
\* after the ']', if there is one, is the ':' that starts the port: the parse
\* fails when the host text ends inside an unclosed literal or has a character
\* other than ':' after the ']'.  It also fails when a reg-name ends inside a
\* percent escape.
C22_HostStateMachine ==
    op = "ParseFromString" =>
        /\ (HasBracketedHost(text) /\ ok) =>
               /\ Ord["]"] \in { HostPortText(text)[i] : i \in 1..Len(HostPortText(text)) }
               /\ (AfterHostText(text) = Empty \/ AfterHostText(text)[1] = Ord[":"])
        /\ (HasAuthorityText(text) /\ EndsInsideEscape(RegNameText(text), {})) => ~ok

C22_Witness ==
    /\ op = "ParseFromString"
    /\ ~ok
    /\ stage = "SplitAuthorityFromPathAndParseIt"
    /\ text = Str(<<"/", "/", "[", ":", ":", "1", "]", "x", "/", "p">>)
    /\ uri.host = Str(<<":", ":", "1">>)

====
